---- MODULE Spec2Model ----
(***************************************************************************)
(* Model of the spellbinder placement engine (composables/usePlacement),   *)
(* the segments store, the collection (ownership) store and the PlanEditor *)
(* handlers that drive them.                                               *)
(*                                                                         *)
(* Conventions.  JavaScript arrays are TLA+ sequences; every index that    *)
(* the program stores or compares (cardIndexInSegment, binderIndex, the    *)
(* keys of spacersBefore, linear slots) keeps its 0-based value, so the    *)
(* element at index i of array xs is xs[i + 1].  A Record<number, number>  *)
(* is a function whose DOMAIN is the set of keys present.  A missing       *)
(* result (-1 of findIndex, null) is -1.                                   *)
(***************************************************************************)
EXTENDS Integers, Sequences, FiniteSets, TLC

VARIABLES
    segments,        \* planSegments: the segments handed to calculatePlacements
    binders,         \* planBinders: the containers, in plan order
    cardMap,         \* ids the card lookup (getCachedCards) resolves
    binderNextSlot,  \* next free linear slot per binder id, of the current call
    cardLoop,        \* the locals of the card loop at each card of that call
    placementResult, \* PlanEditor's placementResult (NoResult = null)
    firstResult,     \* result of the first call of a pair of calls
    callNo,          \* number of calculatePlacements calls completed
    ownedCardIds,    \* collection store: the owned keys segmentId:index
    skippedCardIds,  \* collection store: the skipped keys
    selectedBinderForView,  \* PlanEditor: id of the container shown
    insertTargetSlot,       \* PlanEditor: the pending insert-at-slot, or NoSlot
    trip,            \* the last store edits of a segment and the state before
    plans,           \* plans store: the plans, each with its ordered binderIds
    storedBinders,   \* binders store: the containers, in store order
    removing,        \* removeBinder calls awaiting deleteBinderImage
    pending          \* calculatePlacements calls awaiting getCachedCards

engineVars == <<binderNextSlot, cardLoop, placementResult, firstResult, callNo>>
collectionVars == <<ownedCardIds, skippedCardIds>>
viewVars == <<selectedBinderForView, insertTargetSlot>>
planVars == <<plans, storedBinders, removing>>
asyncVars == <<pending>>

----------------------------------------------------------------------------
(* Bounds of the model and program constants *)

MaxCards == 3        \* most card positions drawn for the segments of one input
MaxSpacers == 2      \* most blank slots drawn over the spacer maps of one input
MaxFlags == 1        \* most keys held by the owned set, and by the skipped set

MAX_SAFE_INTEGER == 1000000   \* Number.MAX_SAFE_INTEGER, scaled to TLC's integers
MaxOffset == 9                \* largest offset the offset field emits

SlotsPerPageChoices == {9, 12}       \* the <select> of BinderForm
OffsetChoices == {0, 7, MaxOffset}   \* offsets drawn from 0..MaxOffset
PairOffsetChoices == {0, 7}          \* offsets drawn for two segments
CardIds == {"a", "b", "u"}
Resolvable == {"a", "b"}             \* "u": an id the lookup never returns
SegmentIds == <<"s1", "s2">>
BinderIds == <<"A", "B">>
NoTarget == ""                        \* targetBinderId undefined (falsy)
NoCardId == ""                        \* insertBeforeCardId null (falsy)
MissingSegment == "zz"                \* id of a segment that is in no store
NoTrip == [stage |-> "none", seg |-> "", pos |-> -1, snap |-> <<>>,
           owned |-> {}, skipped |-> {}]
NoView == ""                          \* selectedBinderForView null
NoSlot == [binderId |-> "", segmentId |-> "", insertBeforeCardId |-> NoCardId]
MissingBinder == "Z"                  \* id of a container that is in no list
NoResult == [placements |-> <<>>, overflow |-> <<>>, totalCards |-> -1,
             totalCapacity |-> -1]

----------------------------------------------------------------------------
(* Helpers *)

Min(S) == CHOOSE x \in S : \A y \in S : x <= y

RECURSIVE SumSeq(_)
SumSeq(s) == IF s = <<>> THEN 0 ELSE Head(s) + SumSeq(Tail(s))

\* the spacer entry of the card before, read for this card
SpacerCountOfPrevious(seg, cardIndex) ==
    IF cardIndex - 1 \in DOMAIN seg.spacersBefore
    THEN seg.spacersBefore[cardIndex - 1] ELSE 0

\* segment.spacersBefore[cardIndex] ?? 0
SpacerCount(seg, cardIndex) ==
    IF cardIndex \in DOMAIN seg.spacersBefore
    THEN seg.spacersBefore[cardIndex] ELSE 0

----------------------------------------------------------------------------
(* calculatePlacements *)

\* binderCapacities[i]
BinderCapacity(b) ==
    IF b.type = "box" THEN MAX_SAFE_INTEGER ELSE b.pageCount * b.slotsPerPage

TotalCapacity(bs) == SumSeq([i \in 1..Len(bs) |-> BinderCapacity(bs[i])])

\* the Map kept across calls instead of being created by each call
CarriedNextSlot(bs) ==
    [id \in {bs[i].id : i \in 1..Len(bs)} |->
        IF id \in DOMAIN binderNextSlot THEN binderNextSlot[id] ELSE 0]

\* const binderNextSlot = new Map(); every binder id set to 0
InitNextSlot(bs) == [id \in {bs[i].id : i \in 1..Len(bs)} |-> 0]

\* findBinderWithSpace(startIndex): index of the first binder from startIndex
\* whose next slot is below its capacity, -1 for null
FindBinderWithSpace(bs, nextSlot, startIndex) ==
    LET cands == {i \in startIndex..(Len(bs) - 1) :
                    nextSlot[bs[i + 1].id] < BinderCapacity(bs[i + 1])}
    IN  IF cands = {} THEN -1 ELSE Min(cands)

\* a target id that is in no container taken for the first container
TargetBinderIndexOrFirst(seg, bs) ==
    IF seg.targetBinderId = NoTarget THEN -1
    ELSE LET hits == {i \in 0..(Len(bs) - 1) : bs[i + 1].id = seg.targetBinderId}
         IN  IF hits = {} THEN 0 ELSE Min(hits)

\* binders.findIndex(b => b.id === segment.targetBinderId), -1 when the
\* segment has no target
TargetBinderIndex(seg, bs) ==
    IF seg.targetBinderId = NoTarget THEN -1
    ELSE LET hits == {i \in 0..(Len(bs) - 1) : bs[i + 1].id = seg.targetBinderId}
         IN  IF hits = {} THEN -1 ELSE Min(hits)

\* the offset applied to a resolved target only
ApplyOffsetToTargetOnly(nextSlot, seg, bs) ==
    LET t == TargetBinderIndex(seg, bs) IN
    IF seg.offset > 0 /\ t # -1
    THEN [nextSlot EXCEPT ![bs[t + 1].id] = @ + seg.offset]
    ELSE nextSlot

\* the offset clamped so that the counter stays on the last slot of the
\* container
ApplyOffsetWithinCapacity(nextSlot, seg, bs) ==
    LET t == TargetBinderIndex(seg, bs)
        clamp(b, n) == IF n < BinderCapacity(b) THEN n ELSE BinderCapacity(b) - 1
    IN
    IF seg.offset > 0
    THEN IF t # -1
         THEN [nextSlot EXCEPT ![bs[t + 1].id] = clamp(bs[t + 1], @ + seg.offset)]
         ELSE LET available == FindBinderWithSpace(bs, nextSlot, 0) IN
              IF available # -1
              THEN [nextSlot EXCEPT ![bs[available + 1].id] =
                                       clamp(bs[available + 1], @ + seg.offset)]
              ELSE nextSlot
    ELSE nextSlot

\* the offset block: the counters after a segment's offset has been applied
ApplyOffset(nextSlot, seg, bs) ==
    LET t == TargetBinderIndex(seg, bs) IN
    IF seg.offset > 0
    THEN IF t # -1
         THEN [nextSlot EXCEPT ![bs[t + 1].id] = @ + seg.offset]
         ELSE LET available == FindBinderWithSpace(bs, nextSlot, 0) IN
              IF available # -1
              THEN [nextSlot EXCEPT ![bs[available + 1].id] = @ + seg.offset]
              ELSE nextSlot
    ELSE nextSlot

\* room tested with <= : a binder whose next slot is its capacity is taken
ChooseBinderOffByOne(bs, nextSlot, targetBinderIndex, spacerCount) ==
    IF /\ targetBinderIndex # -1
       /\ nextSlot[bs[targetBinderIndex + 1].id] + spacerCount
             <= BinderCapacity(bs[targetBinderIndex + 1])
    THEN targetBinderIndex
    ELSE LET startIndex == IF targetBinderIndex # -1
                           THEN targetBinderIndex + 1 ELSE 0
             cands == {i \in startIndex..(Len(bs) - 1) :
                         nextSlot[bs[i + 1].id] + spacerCount
                            <= BinderCapacity(bs[i + 1])}
         IN  IF cands = {} THEN -1 ELSE Min(cands)

\* no auto-fill fallback for a segment that has a target
ChooseBinderTargetOnly(bs, nextSlot, targetBinderIndex, spacerCount) ==
    IF targetBinderIndex # -1
    THEN IF nextSlot[bs[targetBinderIndex + 1].id] + spacerCount
               < BinderCapacity(bs[targetBinderIndex + 1])
         THEN targetBinderIndex ELSE -1
    ELSE LET cands == {i \in 0..(Len(bs) - 1) :
                         nextSlot[bs[i + 1].id] + spacerCount
                            < BinderCapacity(bs[i + 1])}
         IN  IF cands = {} THEN -1 ELSE Min(cands)

\* the fallback scan started from the first binder whatever the target
ChooseBinderFromStart(bs, nextSlot, targetBinderIndex, spacerCount) ==
    IF /\ targetBinderIndex # -1
       /\ nextSlot[bs[targetBinderIndex + 1].id] + spacerCount
             < BinderCapacity(bs[targetBinderIndex + 1])
    THEN targetBinderIndex
    ELSE LET cands == {i \in 0..(Len(bs) - 1) :
                         nextSlot[bs[i + 1].id] + spacerCount
                            < BinderCapacity(bs[i + 1])}
         IN  IF cands = {} THEN -1 ELSE Min(cands)

\* the blanks subtracted from the counter in the room test instead of added
ChooseBinderSubtractingSpacers(bs, nextSlot, targetBinderIndex, spacerCount) ==
    IF /\ targetBinderIndex # -1
       /\ nextSlot[bs[targetBinderIndex + 1].id] - spacerCount
             < BinderCapacity(bs[targetBinderIndex + 1])
    THEN targetBinderIndex
    ELSE LET startIndex == IF targetBinderIndex # -1
                           THEN targetBinderIndex + 1 ELSE 0
             cands == {i \in startIndex..(Len(bs) - 1) :
                         nextSlot[bs[i + 1].id] - spacerCount
                            < BinderCapacity(bs[i + 1])}
         IN  IF cands = {} THEN -1 ELSE Min(cands)

\* the binder that receives a card with spacerCount blanks before it:
\* the target when it has room, else the first binder after the target
\* (from 0 without a target) with room; -1 when none
ChooseBinder(bs, nextSlot, targetBinderIndex, spacerCount) ==
    IF /\ targetBinderIndex # -1
       /\ nextSlot[bs[targetBinderIndex + 1].id] + spacerCount
             < BinderCapacity(bs[targetBinderIndex + 1])
    THEN targetBinderIndex
    ELSE LET startIndex == IF targetBinderIndex # -1
                           THEN targetBinderIndex + 1 ELSE 0
             cands == {i \in startIndex..(Len(bs) - 1) :
                         nextSlot[bs[i + 1].id] + spacerCount
                            < BinderCapacity(bs[i + 1])}
         IN  IF cands = {} THEN -1 ELSE Min(cands)

\* placeCard with the page counted from 0
PlaceCardPageFromZero(cardId, segmentId, cardIndexInSegment, binder, binderIndex, slot) ==
    [card |-> cardId,
     segmentId |-> segmentId,
     cardIndexInSegment |-> cardIndexInSegment,
     binderId |-> binder.id,
     binderIndex |-> binderIndex,
     pageNumber |-> IF binder.type = "box" THEN 1
                    ELSE slot \div binder.slotsPerPage,
     slotOnPage |-> IF binder.type = "box" THEN slot + 1
                    ELSE (slot % binder.slotsPerPage) + 1]

\* placeCard: the placement pushed for a card put at linear slot `slot`
PlaceCard(cardId, segmentId, cardIndexInSegment, binder, binderIndex, slot) ==
    [card |-> cardId,
     segmentId |-> segmentId,
     cardIndexInSegment |-> cardIndexInSegment,
     binderId |-> binder.id,
     binderIndex |-> binderIndex,
     pageNumber |-> IF binder.type = "box" THEN 1
                    ELSE (slot \div binder.slotsPerPage) + 1,
     slotOnPage |-> IF binder.type = "box" THEN slot + 1
                    ELSE (slot % binder.slotsPerPage) + 1]

\* the position of a placement taken from the running count of placements
\* instead of the loop index of the card
PlaceStepRunningIndex(st, seg, cardIndex, bs, cm) ==
    LET cardId == seg.cardIds[cardIndex + 1]
        spacerCount == SpacerCount(seg, cardIndex)
        pb == ChooseBinder(bs, st.nextSlot, TargetBinderIndex(seg, bs), spacerCount)
    IN  IF cardId \notin cm
        THEN st
        ELSE IF pb # -1
        THEN LET binder == bs[pb + 1]
                 slot == st.nextSlot[binder.id] + spacerCount
             IN  [st EXCEPT
                    !.placements = Append(@, PlaceCard(cardId, seg.id,
                                                       Len(st.placements),
                                                       binder, pb, slot)),
                    !.nextSlot = [@ EXCEPT ![binder.id] = slot + 1]]
        ELSE [st EXCEPT !.segmentOverflow = @ + 1]

\* an unresolved id that keeps its blanks and its slot, left empty
PlaceStepHoldingSlot(st, seg, cardIndex, bs, cm) ==
    LET cardId == seg.cardIds[cardIndex + 1]
        spacerCount == SpacerCount(seg, cardIndex)
        pb == ChooseBinder(bs, st.nextSlot, TargetBinderIndex(seg, bs), spacerCount)
    IN  IF pb # -1
        THEN LET binder == bs[pb + 1]
                 slot == st.nextSlot[binder.id] + spacerCount
             IN  [st EXCEPT
                    !.placements =
                        IF cardId \notin cm THEN @
                        ELSE Append(@, PlaceCard(cardId, seg.id, cardIndex,
                                                 binder, pb, slot)),
                    !.nextSlot = [@ EXCEPT ![binder.id] = slot + 1]]
        ELSE IF cardId \notin cm THEN st
        ELSE [st EXCEPT !.segmentOverflow = @ + 1]

\* the blanks of a card that fits nowhere spent in the first binder scanned
PlaceStepSpendingSpacers(st, seg, cardIndex, bs, cm) ==
    LET cardId == seg.cardIds[cardIndex + 1]
        spacerCount == SpacerCount(seg, cardIndex)
        t == TargetBinderIndex(seg, bs)
        first == IF t # -1 THEN t ELSE 0
        pb == ChooseBinder(bs, st.nextSlot, t, spacerCount)
    IN  IF cardId \notin cm
        THEN st
        ELSE IF pb # -1
        THEN LET binder == bs[pb + 1]
                 slot == st.nextSlot[binder.id] + spacerCount
             IN  [st EXCEPT
                    !.placements = Append(@, PlaceCard(cardId, seg.id, cardIndex,
                                                       binder, pb, slot)),
                    !.nextSlot = [@ EXCEPT ![binder.id] = slot + 1]]
        ELSE [st EXCEPT !.segmentOverflow = @ + 1,
                        !.nextSlot = [@ EXCEPT ![bs[first + 1].id] = @ + spacerCount]]

\* one iteration of the card loop on the running state
\* st = [nextSlot, placements, segmentOverflow]
PlaceStep(st, seg, cardIndex, bs, cm) ==
    LET cardId == seg.cardIds[cardIndex + 1]
        spacerCount == SpacerCount(seg, cardIndex)
        pb == ChooseBinder(bs, st.nextSlot, TargetBinderIndex(seg, bs), spacerCount)
    IN  IF cardId \notin cm
        THEN st                                            \* if (!card) continue
        ELSE IF pb # -1
        THEN LET binder == bs[pb + 1]
                 slot == st.nextSlot[binder.id] + spacerCount
             IN  [st EXCEPT
                    !.placements = Append(@, PlaceCard(cardId, seg.id, cardIndex,
                                                       binder, pb, slot)),
                    !.nextSlot = [@ EXCEPT ![binder.id] = slot + 1]]
        ELSE [st EXCEPT !.segmentOverflow = @ + 1]

RECURSIVE RunCards(_, _, _, _, _)
RunCards(st, seg, cardIndex, bs, cm) ==
    IF cardIndex >= Len(seg.cardIds) THEN st
    ELSE RunCards(PlaceStep(st, seg, cardIndex, bs, cm), seg, cardIndex + 1, bs, cm)

\* the counters started from 0 again for every segment
RunSegmentFreshCounters(run, seg, bs, cm) ==
    LET st0 == [nextSlot |-> ApplyOffset(InitNextSlot(bs), seg, bs),
                placements |-> run.placements,
                segmentOverflow |-> 0]
        st == RunCards(st0, seg, 0, bs, cm)
    IN  [nextSlot |-> st.nextSlot,
         placements |-> st.placements,
         overflow |-> IF st.segmentOverflow > 0
                      THEN Append(run.overflow,
                                  [segmentId |-> seg.id,
                                   overflowCount |-> st.segmentOverflow])
                      ELSE run.overflow]

\* one iteration of the segment loop on the running state
\* run = [nextSlot, placements, overflow]
RunSegment(run, seg, bs, cm) ==
    LET st0 == [nextSlot |-> ApplyOffset(run.nextSlot, seg, bs),
                placements |-> run.placements,
                segmentOverflow |-> 0]
        st == RunCards(st0, seg, 0, bs, cm)
    IN  [nextSlot |-> st.nextSlot,
         placements |-> st.placements,
         overflow |-> IF st.segmentOverflow > 0
                      THEN Append(run.overflow,
                                  [segmentId |-> seg.id,
                                   overflowCount |-> st.segmentOverflow])
                      ELSE run.overflow]

RECURSIVE RunSegments(_, _, _, _, _)
RunSegments(run, segs, k, bs, cm) ==
    IF k > Len(segs) THEN run
    ELSE RunSegments(RunSegment(run, segs[k], bs, cm), segs, k + 1, bs, cm)

\* the locals of a call when it returns, started from the counters nextSlot0
EngineRun(segs, bs, cm, nextSlot0) ==
    RunSegments([nextSlot |-> nextSlot0, placements |-> <<>>, overflow |-> <<>>],
                segs, 1, bs, cm)

\* allCardIds.length
TotalCards(segs) == SumSeq([k \in 1..Len(segs) |-> Len(segs[k].cardIds)])

ResultOf(run, segs, bs) ==
    [placements |-> run.placements,
     overflow |-> run.overflow,
     totalCards |-> TotalCards(segs),
     totalCapacity |-> TotalCapacity(bs)]

CalculatePlacements(segs, bs, cm) ==
    ResultOf(EngineRun(segs, bs, cm, InitNextSlot(bs)), segs, bs)

----------------------------------------------------------------------------
(* Inputs of calculatePlacements: the states the stores can hold *)

RECURSIVE SumFn(_, _)
SumFn(f, n) == IF n = 0 THEN 0 ELSE f[n - 1] + SumFn(f, n - 1)

\* a count per position, kept sparse as the stores keep spacersBefore
Sparse(f) == [i \in {j \in DOMAIN f : f[j] > 0} |-> f[i]]

\* the spacer maps over l positions that hold exactly n blanks
SpacerMaps(l, n) ==
    {Sparse(f) : f \in {g \in [0..(l - 1) -> 0..n] : SumFn(g, l) = n}}

Box == [type |-> "box", pageCount |-> 0, slotsPerPage |-> 0]
Pages(p, s) == [type |-> "binder", pageCount |-> p, slotsPerPage |-> s]

\* the kinds drawn for a plan with one container, and for each container of
\* a plan with two
BinderKinds == {Pages(1, 9), Pages(2, 9), Pages(1, 12), Box}
PairKinds == {Pages(1, 9), Box}

\* a container of kind k with id id (a box has no pageCount or slotsPerPage:
\* the 0 fields are never read for it)
MkBinder(id, k) ==
    [id |-> id, type |-> k.type, pageCount |-> k.pageCount,
     slotsPerPage |-> k.slotsPerPage]

\* getBindersInOrder(plan.binderIds): distinct ids, at least one container
BinderLists ==
    {<<MkBinder(BinderIds[1], k)>> : k \in BinderKinds}
    \cup {<<MkBinder(BinderIds[1], k1), MkBinder(BinderIds[2], k2)>> :
             k1 \in PairKinds, k2 \in PairKinds}

Targets(bs) == {NoTarget, MissingBinder} \cup {bs[i].id : i \in 1..Len(bs)}

\* the card sequences of length l over ids with at most one unresolved id
CardSeqs(l, ids) ==
    {c \in [1..l -> ids] :
        Cardinality({i \in 1..l : c[i] \notin Resolvable}) <= 1}

\* the segments with id id, l cards drawn from ids, n blanks and an offset
\* drawn from offsets
SegmentsOf(id, l, n, ids, offsets, bs) ==
    {[id |-> id, cardIds |-> c, offset |-> o, targetBinderId |-> t,
      spacersBefore |-> sp] :
        c \in CardSeqs(l, ids), o \in offsets, t \in Targets(bs),
        sp \in SpacerMaps(l, n)}

\* the two concrete scenarios of the specification: 2 pages x 9 slots,
\* one segment of 20 cards, offset 0 or 3
ScenarioBinders == <<MkBinder("A", Pages(2, 9))>>

ScenarioSegments ==
    {<<[id |-> "s1", cardIds |-> [i \in 1..20 |-> "a"], offset |-> o,
        targetBinderId |-> NoTarget, spacersBefore |-> <<>>]>> : o \in {0, 3}}

\* scenario 3: five cards, one blank before position 2, one empty box
SpacerScenarioBinders == <<MkBinder("A", Box)>>

SpacerScenarioSegments ==
    <<[id |-> "s1", cardIds |-> <<"a", "b", "a", "b", "a">>, offset |-> 0,
       targetBinderId |-> NoTarget, spacersBefore |-> (2 :> 1)]>>

\* the plans store and the binders store empty, and no call under way
PlansIdle ==
    /\ plans = <<>>
    /\ storedBinders = <<>>
    /\ removing = {}
    /\ pending = {}

InitEngine ==
    /\ cardMap = Resolvable
    /\ binderNextSlot = <<>>
    /\ cardLoop = <<>>
    /\ placementResult = NoResult
    /\ firstResult = NoResult
    /\ callNo = 0
    /\ ownedCardIds = {}
    /\ skippedCardIds = {}
    /\ selectedBinderForView = NoView
    /\ insertTargetSlot = NoSlot
    /\ trip = NoTrip
    /\ PlansIdle

\* one segment: any mix of resolved and unresolved ids
InitOneSegment ==
    /\ binders \in BinderLists
    /\ \E l \in 0..MaxCards : \E n \in 0..MaxSpacers :
          \E s1 \in SegmentsOf("s1", l, n, {"a", "u"}, OffsetChoices, binders) :
              segments = <<s1>>
    /\ InitEngine

\* two segments that share the containers
InitTwoSegments ==
    /\ binders \in BinderLists
    /\ \E l1 \in 0..MaxCards : \E l2 \in 0..(MaxCards - l1) :
       \E n1 \in 0..MaxSpacers : \E n2 \in 0..(MaxSpacers - n1) :
          \E s1 \in SegmentsOf("s1", l1, n1, {"a"}, PairOffsetChoices, binders) :
          \E s2 \in SegmentsOf("s2", l2, n2, {"b"}, PairOffsetChoices, binders) :
              segments = <<s1, s2>>
    /\ InitEngine

InitScenario ==
    /\ \/ binders = ScenarioBinders /\ segments \in ScenarioSegments
       \/ binders = SpacerScenarioBinders /\ segments = SpacerScenarioSegments
    /\ InitEngine

InitPlace == InitOneSegment \/ InitTwoSegments \/ InitScenario

\* the counters when the loop reaches segment k, and when it leaves it
CountersBefore(k) ==
    EngineRun(SubSeq(segments, 1, k - 1), binders, cardMap,
              InitNextSlot(binders)).nextSlot

CountersAfter(k) ==
    EngineRun(SubSeq(segments, 1, k), binders, cardMap,
              InitNextSlot(binders)).nextSlot

\* the counters of the containers from the b-th on, in container order
RECURSIVE CountersInOrder(_, _)
CountersInOrder(nextSlot, b) ==
    IF b > Len(binders) THEN <<>>
    ELSE <<nextSlot[binders[b].id]>> \o CountersInOrder(nextSlot, b + 1)

\* the locals of the card loop as they are at one moment, the counters in
\* container order
Snapshot(st) ==
    [nextSlot |-> CountersInOrder(st.nextSlot, 1),
     placements |-> st.placements,
     segmentOverflow |-> st.segmentOverflow]

\* the locals of the card loop of a segment before each of its cards and
\* after the last one: element i + 1 is the state when the loop reaches
\* position i
RECURSIVE StatesFrom(_, _, _)
StatesFrom(st, seg, cardIndex) ==
    IF cardIndex >= Len(seg.cardIds) THEN <<Snapshot(st)>>
    ELSE <<Snapshot(st)>>
            \o StatesFrom(PlaceStep(st, seg, cardIndex, binders, cardMap),
                          seg, cardIndex + 1)

\* those states for segment k
CardStates(k) ==
    StatesFrom([nextSlot |-> ApplyOffset(CountersBefore(k), segments[k], binders),
                placements |-> <<>>,
                segmentOverflow |-> 0],
               segments[k], 0)

\* one call of calculatePlacements(planSegments, planBinders); the body after
\* the awaited lookup runs to completion without interleaving
Calculate ==
    /\ callNo < 2
    /\ LET run == EngineRun(segments, binders, cardMap, InitNextSlot(binders))
       IN  /\ binderNextSlot' = run.nextSlot
           /\ placementResult' = ResultOf(run, segments, binders)
    /\ cardLoop' = [k \in 1..Len(segments) |-> CardStates(k)]
    /\ firstResult' = IF callNo = 0 THEN placementResult' ELSE firstResult
    /\ callNo' = callNo + 1
    /\ UNCHANGED <<segments, binders, cardMap, collectionVars, viewVars, trip,
                   planVars, asyncVars>>

vars == <<segments, binders, cardMap, binderNextSlot, cardLoop,
          placementResult, firstResult, callNo, ownedCardIds, skippedCardIds,
          selectedBinderForView, insertTargetSlot, trip, plans, storedBinders,
          removing, pending>>

NextPlace == Calculate

SpecPlace == InitPlace /\ [][NextPlace]_vars

----------------------------------------------------------------------------
(* The collection store: owned and skipped keys `${segmentId}:${index}` *)

\* getPlacementOwnershipKey: the key of position index of segment segmentId
OwnershipKey(segmentId, index) == [segmentId |-> segmentId, index |-> index]

\* every key of the segment moved up, whatever its index
ShiftIndicesForInsertWholeSegment(keys, segmentId, insertIndex) ==
    {IF key.segmentId = segmentId
     THEN OwnershipKey(segmentId, key.index + 1) ELSE key : key \in keys}

\* shiftIndicesForInsert on one key set: keys of the segment at or after
\* insertIndex move up by 1
ShiftIndicesForInsert(keys, segmentId, insertIndex) ==
    {IF key.segmentId = segmentId /\ key.index >= insertIndex
     THEN OwnershipKey(segmentId, key.index + 1) ELSE key : key \in keys}

\* shiftIndicesForRemove that keeps the key at removeIndex, so that the card
\* moving into the position inherits it
ShiftIndicesForRemoveKeepingKey(keys, segmentId, removeIndex) ==
    {IF key.segmentId = segmentId /\ key.index > removeIndex
     THEN OwnershipKey(segmentId, key.index - 1) ELSE key :
        key \in keys}

\* shiftIndicesForRemove on one key set: the key at removeIndex is dropped,
\* keys of the segment after it move down by 1
ShiftIndicesForRemove(keys, segmentId, removeIndex) ==
    {IF key.segmentId = segmentId /\ key.index > removeIndex
     THEN OwnershipKey(segmentId, key.index - 1) ELSE key :
        key \in {k \in keys : ~(k.segmentId = segmentId /\ k.index = removeIndex)}}

\* toggleOwned / toggleSkipped on one key set
Toggle(keys, key) == IF key \in keys THEN keys \ {key} ELSE keys \cup {key}

----------------------------------------------------------------------------
(* The segments store *)

\* segments.findIndex(s => s.id === id) / segmentMap.get(id), -1 when absent
SegmentIndex(segs, segmentId) ==
    LET hits == {k \in 0..(Len(segs) - 1) : segs[k + 1].id = segmentId}
    IN  IF hits = {} THEN -1 ELSE Min(hits)

\* array.indexOf(x): the first index holding x, -1 when absent
IndexOf(xs, x) ==
    LET hits == {i \in 0..(Len(xs) - 1) : xs[i + 1] = x}
    IN  IF hits = {} THEN -1 ELSE Min(hits)

\* xs.splice(index, 1)
SpliceOut(xs, index) ==
    [i \in 1..(Len(xs) - 1) |-> IF i <= index THEN xs[i] ELSE xs[i + 1]]

\* xs.splice(index, 0, x)
SpliceIn(xs, index, x) ==
    [i \in 1..(Len(xs) + 1) |->
        IF i <= index THEN xs[i] ELSE IF i = index + 1 THEN x ELSE xs[i - 1]]

\* the entry of the removed card dropped, the entries above left in place
SpacersAfterRemoveUnshifted(sp, cardIndex) ==
    [i \in DOMAIN sp \ {cardIndex} |-> sp[i]]

\* the blanks of the removed card handed to the card that moves into its
\* position when that card has none of its own
SpacersAfterRemoveHandingOver(sp, cardIndex) ==
    [i \in {idx \in DOMAIN sp : idx <= cardIndex}
           \cup {idx - 1 : idx \in {j \in DOMAIN sp : j > cardIndex}} |->
        IF i < cardIndex THEN sp[i]
        ELSE IF i + 1 \in DOMAIN sp THEN sp[i + 1] ELSE sp[i]]

\* removeCardAtIndex: entries below cardIndex kept, the entry at cardIndex
\* skipped, entries above moved down by 1
SpacersAfterRemove(sp, cardIndex) ==
    [i \in {idx \in DOMAIN sp : idx < cardIndex}
           \cup {idx - 1 : idx \in {j \in DOMAIN sp : j > cardIndex}} |->
        IF i < cardIndex THEN sp[i] ELSE sp[i + 1]]

\* removeCardAtIndex on the segment itself (the guard is the caller's)
RemoveCardAtIndexIn(seg, cardIndex) ==
    [seg EXCEPT !.cardIds = SpliceOut(@, cardIndex),
                !.spacersBefore = SpacersAfterRemove(@, cardIndex)]

\* the gap left whole: the entry of the card at index moves up undiminished
SpacersAfterInsertKeepingGap(sp, index) ==
    [i \in {idx \in DOMAIN sp : idx < index}
           \cup {idx + 1 : idx \in {j \in DOMAIN sp : j >= index}} |->
        IF i < index THEN sp[i] ELSE sp[i - 1]]

\* the last blank of the gap consumed by writing the count 0
SpacersAfterInsertLeavingZero(sp, index) ==
    LET existingSpacers == IF index \in DOMAIN sp THEN sp[index] ELSE 0
        shifted == [i \in {idx \in DOMAIN sp : idx < index}
                          \cup {idx + 1 : idx \in {j \in DOMAIN sp : j >= index}} |->
                       IF i < index THEN sp[i] ELSE sp[i - 1]]
    IN  IF existingSpacers > 0
        THEN [shifted EXCEPT ![index + 1] = existingSpacers - 1]
        ELSE shifted

\* insertCardInSegment, found branch: entries below index kept, the others
\* moved up by 1, then one blank of the entry that was at index is consumed
SpacersAfterInsert(sp, index) ==
    LET existingSpacers == IF index \in DOMAIN sp THEN sp[index] ELSE 0
        shifted == [i \in {idx \in DOMAIN sp : idx < index}
                          \cup {idx + 1 : idx \in {j \in DOMAIN sp : j >= index}} |->
                       IF i < index THEN sp[i] ELSE sp[i - 1]]
    IN  IF existingSpacers > 1
        THEN [shifted EXCEPT ![index + 1] = existingSpacers - 1]
        ELSE IF existingSpacers > 0
        THEN [i \in DOMAIN shifted \ {index + 1} |-> shifted[i]]
        ELSE shifted

\* the index at which insertCardInSegment puts the new card: before the
\* first occurrence of insertBeforeCardId, else at the end
InsertPosition(seg, insertBeforeCardId) ==
    IF insertBeforeCardId # NoCardId /\ IndexOf(seg.cardIds, insertBeforeCardId) # -1
    THEN IndexOf(seg.cardIds, insertBeforeCardId)
    ELSE Len(seg.cardIds)

\* true when insertCardInSegment takes the branch that renumbers
InsertsBefore(seg, insertBeforeCardId) ==
    insertBeforeCardId # NoCardId /\ IndexOf(seg.cardIds, insertBeforeCardId) # -1

\* insertCardInSegment on the segment itself
InsertCardInSegmentIn(seg, cardId, insertBeforeCardId) ==
    IF InsertsBefore(seg, insertBeforeCardId)
    THEN LET index == IndexOf(seg.cardIds, insertBeforeCardId) IN
         [seg EXCEPT !.cardIds = SpliceIn(@, index, cardId),
                     !.spacersBefore = SpacersAfterInsert(@, index)]
    ELSE [seg EXCEPT !.cardIds = Append(@, cardId)]

\* removeSpacerBefore that keeps an entry of 0 instead of deleting it
RemoveSpacerBeforeKeepingZero(seg, cardIndex) ==
    LET current == SpacerCount(seg, cardIndex) IN
    IF current <= 0 THEN seg
    ELSE [seg EXCEPT !.spacersBefore =
             [i \in DOMAIN @ |-> IF i = cardIndex THEN current - 1 ELSE @[i]]]

\* addSpacerBefore on the segment itself
AddSpacerBeforeIn(seg, cardIndex) ==
    LET current == SpacerCount(seg, cardIndex) IN
    [seg EXCEPT !.spacersBefore =
        [i \in DOMAIN @ \cup {cardIndex} |->
            IF i = cardIndex THEN current + 1 ELSE @[i]]]

\* removeSpacerBefore on the segment itself
RemoveSpacerBeforeIn(seg, cardIndex) ==
    LET current == SpacerCount(seg, cardIndex) IN
    IF current <= 0 THEN seg
    ELSE IF current > 1
    THEN [seg EXCEPT !.spacersBefore =
             [i \in DOMAIN @ |-> IF i = cardIndex THEN current - 1 ELSE @[i]]]
    ELSE [seg EXCEPT !.spacersBefore = [i \in DOMAIN @ \ {cardIndex} |-> @[i]]]

\* the position one past the last card taken for a position of the segment
ValidIndexOrEnd(seg, cardIndex) == cardIndex >= 0 /\ cardIndex <= Len(seg.cardIds)

\* segment.cardIds has a card at cardIndex
ValidIndex(seg, cardIndex) == cardIndex >= 0 /\ cardIndex < Len(seg.cardIds)

TotalBlanks(seg) ==
    SumSeq([i \in 1..Len(seg.cardIds) |-> SpacerCount(seg, i - 1)])

----------------------------------------------------------------------------
(* The stores driven by any sequence of calls with any arguments *)


\* the calls edit the first segment; the second one stays as created
StoreSegmentIds == {SegmentIds[1], MissingSegment}
Positions == -1..MaxCards
StoreCardIds == {"a", "b"}

\* addSegment: offset 0, no target, no spacers
NewSegment(id, cardIds) ==
    [id |-> id, cardIds |-> cardIds, offset |-> 0, targetBinderId |-> NoTarget,
     spacersBefore |-> <<>>]

InitStore ==
    /\ \E l \in 0..MaxCards : \E c \in [1..l -> StoreCardIds] :
          segments = <<NewSegment(SegmentIds[1], c),
                       NewSegment(SegmentIds[2], <<"a", "b">>)>>
    /\ binders = <<>>
    /\ cardMap = Resolvable
    /\ binderNextSlot = <<>>
    /\ cardLoop = <<>>
    /\ placementResult = NoResult
    /\ firstResult = NoResult
    /\ callNo = 0
    /\ ownedCardIds = {}
    /\ skippedCardIds = {}
    /\ selectedBinderForView = NoView
    /\ insertTargetSlot = NoSlot
    /\ trip = NoTrip
    /\ PlansIdle

\* removeCardAtIndex(segmentId, cardIndex)
RemoveCardAtIndex(segmentId, cardIndex) ==
    LET k == SegmentIndex(segments, segmentId) IN
    IF k = -1 \/ ~ValidIndex(segments[k + 1], cardIndex)
    THEN UNCHANGED <<segments, collectionVars>>
    ELSE /\ segments' = [segments EXCEPT
                            ![k + 1] = RemoveCardAtIndexIn(@, cardIndex)]
         /\ ownedCardIds' = ShiftIndicesForRemove(ownedCardIds, segmentId, cardIndex)
         /\ skippedCardIds' = ShiftIndicesForRemove(skippedCardIds, segmentId, cardIndex)

\* insertCardInSegment(segmentId, cardId, insertBeforeCardId)
InsertCardInSegment(segmentId, cardId, insertBeforeCardId) ==
    LET k == SegmentIndex(segments, segmentId) IN
    IF k = -1
    THEN UNCHANGED <<segments, collectionVars>>
    ELSE LET seg == segments[k + 1]
             index == InsertPosition(seg, insertBeforeCardId)
         IN  /\ Len(seg.cardIds) < MaxCards
             /\ segments' = [segments EXCEPT
                    ![k + 1] = InsertCardInSegmentIn(@, cardId, insertBeforeCardId)]
             /\ IF InsertsBefore(seg, insertBeforeCardId)
                THEN /\ ownedCardIds' =
                           ShiftIndicesForInsert(ownedCardIds, segmentId, index)
                     /\ skippedCardIds' =
                           ShiftIndicesForInsert(skippedCardIds, segmentId, index)
                ELSE UNCHANGED collectionVars

\* addSpacerBefore(segmentId, cardIndex)
AddSpacerBefore(segmentId, cardIndex) ==
    LET k == SegmentIndex(segments, segmentId) IN
    IF k = -1 \/ ~ValidIndex(segments[k + 1], cardIndex)
    THEN UNCHANGED <<segments, collectionVars>>
    ELSE /\ TotalBlanks(segments[k + 1]) < MaxSpacers
         /\ segments' = [segments EXCEPT ![k + 1] = AddSpacerBeforeIn(@, cardIndex)]
         /\ UNCHANGED collectionVars

\* removeSpacerBefore(segmentId, cardIndex)
RemoveSpacerBefore(segmentId, cardIndex) ==
    LET k == SegmentIndex(segments, segmentId) IN
    IF k = -1 \/ ~ValidIndex(segments[k + 1], cardIndex)
    THEN UNCHANGED <<segments, collectionVars>>
    ELSE /\ segments' = [segments EXCEPT
                            ![k + 1] = RemoveSpacerBeforeIn(@, cardIndex)]
         /\ UNCHANGED collectionVars

\* removeSegment(id): the segment is spliced out of the list and the list is
\* saved; the collection store is not called
RemoveSegment(id) ==
    LET index == SegmentIndex(segments, id) IN
    IF index # -1
    THEN /\ segments' = SpliceOut(segments, index)
         /\ UNCHANGED collectionVars
    ELSE UNCHANGED <<segments, collectionVars>>

\* the record of the last edits: an insert, an insert followed by the
\* removal at the position the card landed at, another removal, an added
\* spacer, an added spacer followed by the removal of a spacer at the same
\* position, another removal of a spacer; snap, owned and skipped are the
\* segments and the key sets before the first of them
Applies(segmentId, cardIndex) ==
    /\ SegmentIndex(segments, segmentId) # -1
    /\ ValidIndex(segments[SegmentIndex(segments, segmentId) + 1], cardIndex)

\* a call that took an early return: stage "rejected", with the state it met
Rejected ==
    [stage |-> "rejected", seg |-> "", pos |-> -1, snap |-> segments,
     owned |-> ownedCardIds, skipped |-> skippedCardIds]

\* the record of a removal: stage "removed" with the position and the
\* segments and key sets before it
TripAfterRemoval(segmentId, cardIndex) ==
    IF ~Applies(segmentId, cardIndex) THEN Rejected
    ELSE [stage |-> "removed", seg |-> segmentId, pos |-> cardIndex,
          snap |-> segments, owned |-> ownedCardIds, skipped |-> skippedCardIds]

\* in the plans store a removal that took the early return is recorded with
\* the arguments it was called with
TripAfterRemoveCard(segmentId, cardIndex) ==
    IF ~Applies(segmentId, cardIndex)
    THEN [Rejected EXCEPT !.seg = segmentId, !.pos = cardIndex]
    ELSE IF trip.stage = "inserted" /\ trip.seg = segmentId /\ trip.pos = cardIndex
    THEN [trip EXCEPT !.stage = "insertedRemoved"]
    ELSE TripAfterRemoval(segmentId, cardIndex)

TripAfterInsert(segmentId, insertBeforeCardId) ==
    IF SegmentIndex(segments, segmentId) = -1 THEN Rejected
    ELSE [stage |-> "inserted", seg |-> segmentId,
          pos |-> InsertPosition(segments[SegmentIndex(segments, segmentId) + 1],
                                 insertBeforeCardId),
          snap |-> segments, owned |-> ownedCardIds, skipped |-> skippedCardIds]

TripAfterRemoveSegment(id) ==
    IF SegmentIndex(segments, id) = -1 THEN Rejected
    ELSE [stage |-> "segmentRemoved", seg |-> id, pos |-> -1, snap |-> segments,
          owned |-> ownedCardIds, skipped |-> skippedCardIds]

TripAfterAddSpacer(segmentId, cardIndex) ==
    IF Applies(segmentId, cardIndex)
    THEN [stage |-> "added", seg |-> segmentId, pos |-> cardIndex,
          snap |-> segments, owned |-> ownedCardIds, skipped |-> skippedCardIds]
    ELSE Rejected

TripAfterRemoveSpacer(segmentId, cardIndex) ==
    IF ~Applies(segmentId, cardIndex) THEN Rejected
    ELSE IF trip.stage = "added" /\ trip.seg = segmentId /\ trip.pos = cardIndex
    THEN [trip EXCEPT !.stage = "addedRemoved"]
    ELSE [stage |-> "spacerRemoved", seg |-> segmentId, pos |-> cardIndex,
          snap |-> segments, owned |-> ownedCardIds, skipped |-> skippedCardIds]

\* the keys the views toggle: positions of cards of stored segments
PlacementKeys ==
    UNION {{OwnershipKey(segments[k].id, i) :
               i \in 0..(Len(segments[k].cardIds) - 1)} : k \in 1..Len(segments)}

\* toggleOwned(key)
ToggleOwned(key) ==
    /\ Cardinality(Toggle(ownedCardIds, key)) <= MaxFlags
    /\ ownedCardIds' = Toggle(ownedCardIds, key)
    /\ UNCHANGED <<segments, skippedCardIds>>

\* toggleSkipped(key)
ToggleSkipped(key) ==
    /\ Cardinality(Toggle(skippedCardIds, key)) <= MaxFlags
    /\ skippedCardIds' = Toggle(skippedCardIds, key)
    /\ UNCHANGED <<segments, ownedCardIds>>

\* what the calls of the two stores leave alone
storeFrame == <<binders, cardMap, engineVars, viewVars, planVars, asyncVars>>

\* the calls of the segments store, on key sets that stay as loaded
NextStore ==
    \/ \E id \in StoreSegmentIds : \E i \in Positions :
          /\ RemoveCardAtIndex(id, i)
          /\ trip' = TripAfterRemoveCard(id, i)
          /\ UNCHANGED storeFrame
    \/ \E id \in StoreSegmentIds : \E c \in StoreCardIds :
       \E before \in StoreCardIds \cup {NoCardId} :
          /\ InsertCardInSegment(id, c, before)
          /\ trip' = TripAfterInsert(id, before)
          /\ UNCHANGED storeFrame
    \/ \E id \in StoreSegmentIds : \E i \in Positions :
          /\ AddSpacerBefore(id, i)
          /\ trip' = TripAfterAddSpacer(id, i)
          /\ UNCHANGED storeFrame
    \/ \E id \in StoreSegmentIds : \E i \in Positions :
          /\ RemoveSpacerBefore(id, i)
          /\ trip' = TripAfterRemoveSpacer(id, i)
          /\ UNCHANGED storeFrame

SpecStore == InitStore /\ [][NextStore]_vars

\* the ids removeSegment is called with
StoredOrMissing == {SegmentIds[i] : i \in 1..Len(SegmentIds)} \cup {MissingSegment}

\* the calls that read or write the key sets: the toggles of the collection
\* store and the calls of the segments store that re-key (the spacer calls
\* touch no key and are left to SpecStore)
NextCollection ==
    \/ \E key \in PlacementKeys :
          ToggleOwned(key) /\ trip' = NoTrip /\ UNCHANGED storeFrame
    \/ \E key \in PlacementKeys :
          ToggleSkipped(key) /\ trip' = NoTrip /\ UNCHANGED storeFrame
    \/ \E id \in StoreSegmentIds : \E i \in Positions :
          /\ RemoveCardAtIndex(id, i)
          /\ trip' = TripAfterRemoval(id, i)
          /\ UNCHANGED storeFrame
    \/ \E id \in StoreSegmentIds : \E c \in StoreCardIds :
       \E before \in StoreCardIds \cup {NoCardId} :
          /\ InsertCardInSegment(id, c, before)
          /\ trip' = TripAfterInsert(id, before)
          /\ UNCHANGED storeFrame
    \/ \E id \in StoredOrMissing :
          /\ RemoveSegment(id)
          /\ trip' = TripAfterRemoveSegment(id)
          /\ UNCHANGED storeFrame

SpecCollection == InitStore /\ [][NextCollection]_vars

----------------------------------------------------------------------------
(* The plan editor: each handler edits a store and recomputes the placement.
   A handler runs to its end before the next one starts. *)

\* the containers of the plans drawn for the editor: binders with pages,
\* whose empty slots the page grid offers for a click, and a box
EditorBinderLists ==
    {<<MkBinder(BinderIds[1], Pages(1, 9))>>,
     <<MkBinder(BinderIds[1], Box)>>,
     <<MkBinder(BinderIds[1], Pages(1, 9)), MkBinder(BinderIds[2], Pages(1, 9))>>}

\* bindersStore.getBinder(id): the index in the plan's containers, -1 if none
BinderIndex(bs, binderId) ==
    LET hits == {k \in 0..(Len(bs) - 1) : bs[k + 1].id = binderId}
    IN  IF hits = {} THEN -1 ELSE Min(hits)

\* the recomputation at the end of a handler, skipped when a list is empty
Recalculate(segs) ==
    IF Len(binders) > 0 /\ Len(segs) > 0
    THEN CalculatePlacements(segs, binders, cardMap)
    ELSE placementResult

\* a box has no slotsPerPage field: the product with undefined is NaN, and
\* every comparison with NaN is false
SlotIndexIsNaN(binder) == binder.type = "box"

\* (pageNumber - 1) * slotsPerPage + (slotOnPage - 1), where it is a number
SlotIndex(pageNumber, slotOnPage, binder) ==
    (pageNumber - 1) * binder.slotsPerPage + (slotOnPage - 1)

\* placementsInBinder: the positions in the result of the placements of the
\* container shown
PlacementsInBinder(res, binderId) ==
    {k \in 1..Len(res.placements) : res.placements[k].binderId = binderId}

\* [...placementsInBinder].reverse().find(p => p.slotIndex < target):
\* position in the result of the nearest placement below the target, 0 if none
PlacementBefore(res, binder, targetSlotIndex) ==
    LET idx(k) == SlotIndex(res.placements[k].pageNumber,
                            res.placements[k].slotOnPage, binder)
        below == {k \in PlacementsInBinder(res, binder.id) :
                     ~SlotIndexIsNaN(binder) /\ idx(k) < targetSlotIndex}
    IN  IF below = {} THEN 0
        ELSE CHOOSE k \in below :
                \A j \in below : idx(j) < idx(k) \/ (idx(j) = idx(k) /\ j <= k)

\* placementsInBinder.find(p => p.slotIndex > target), 0 if none
PlacementAfter(res, binder, targetSlotIndex) ==
    LET idx(k) == SlotIndex(res.placements[k].pageNumber,
                            res.placements[k].slotOnPage, binder)
        above == {k \in PlacementsInBinder(res, binder.id) :
                     ~SlotIndexIsNaN(binder) /\ idx(k) > targetSlotIndex}
    IN  IF above = {} THEN 0
        ELSE CHOOSE k \in above :
                \A j \in above : idx(j) > idx(k) \/ (idx(j) = idx(k) /\ j >= k)

\* the owning segment and the card to insert before, for a clicked slot
\* (the fields of insertTargetSlot that handleCardSelected reads);
\* segmentId "" when no owning segment is found
InsertTarget(res, segs, binder, pageNumber, slotOnPage) ==
    LET target == SlotIndex(pageNumber, slotOnPage, binder)
        b == PlacementBefore(res, binder, target)
        a == PlacementAfter(res, binder, target)
        owner == IF b # 0 THEN res.placements[b].segmentId
                 ELSE IF a # 0 THEN res.placements[a].segmentId
                 ELSE ""
        beforeId == IF b # 0
                    THEN IF a # 0 /\ res.placements[a].segmentId
                                       = res.placements[b].segmentId
                         THEN res.placements[a].card ELSE NoCardId
                    ELSE IF a # 0 THEN res.placements[a].card
                    ELSE NoCardId
    IN  [binderId |-> binder.id,
         segmentId |-> IF SegmentIndex(segs, owner) = -1 THEN "" ELSE owner,
         insertBeforeCardId |-> beforeId]

InitEditor ==
    /\ \E bs \in EditorBinderLists :
       \E l1 \in 0..MaxCards : \E l2 \in 0..(MaxCards - l1) :
       \E c1 \in [1..l1 -> StoreCardIds] : \E c2 \in [1..l2 -> StoreCardIds] :
          /\ binders = bs
          /\ segments = <<NewSegment(SegmentIds[1], c1),
                          NewSegment(SegmentIds[2], c2)>>
          /\ placementResult =
                CalculatePlacements(<<NewSegment(SegmentIds[1], c1),
                                      NewSegment(SegmentIds[2], c2)>>,
                                    bs, Resolvable)
          /\ selectedBinderForView = bs[1].id
    /\ cardMap = Resolvable
    /\ binderNextSlot = <<>>
    /\ cardLoop = <<>>
    /\ firstResult = NoResult
    /\ callNo = 0
    /\ ownedCardIds = {}
    /\ skippedCardIds = {}
    /\ insertTargetSlot = NoSlot
    /\ trip = NoTrip
    /\ PlansIdle

NoModal == insertTargetSlot = NoSlot

\* viewBinder(binderId)
ViewBinder(binderId) ==
    /\ NoModal
    /\ selectedBinderForView' = binderId
    /\ trip' = NoTrip
    /\ UNCHANGED <<segments, collectionVars, placementResult, insertTargetSlot>>

\* updateSegmentOffset(segment, offset), and the recomputation of the watch
UpdateSegmentOffset(k, offset) ==
    /\ NoModal
    /\ segments' = [segments EXCEPT ![k].offset = offset]
    /\ placementResult' = Recalculate(segments')
    /\ trip' = NoTrip
    /\ UNCHANGED <<collectionVars, viewVars>>

\* handleRemoveCard(segmentId, cardIndex), from the menu of a placed card
HandleRemoveCard(segmentId, cardIndex) ==
    /\ NoModal
    /\ RemoveCardAtIndex(segmentId, cardIndex)
    /\ placementResult' = Recalculate(segments')
    /\ trip' = NoTrip
    /\ UNCHANGED viewVars

\* handleAddSpacer(segmentId, cardIndex), from the menu of a placed card
HandleAddSpacer(segmentId, cardIndex) ==
    /\ NoModal
    /\ SumSeq([k \in 1..Len(segments) |-> TotalBlanks(segments[k])]) < MaxSpacers
    /\ AddSpacerBefore(segmentId, cardIndex)
    /\ placementResult' = Recalculate(segments')
    /\ trip' = NoTrip
    /\ UNCHANGED viewVars

\* handleRemoveSpacer(segmentId, cardIndex), from the menu of a placed card
HandleRemoveSpacer(segmentId, cardIndex) ==
    /\ NoModal
    /\ RemoveSpacerBefore(segmentId, cardIndex)
    /\ placementResult' = Recalculate(segments')
    /\ trip' = NoTrip
    /\ UNCHANGED viewVars

\* handleInsertCard(pageNumber, slotOnPage), from a click on an empty slot of
\* the page shown
HandleInsertCard(pageNumber, slotOnPage) ==
    /\ NoModal
    /\ selectedBinderForView # NoView
    /\ placementResult # NoResult
    /\ BinderIndex(binders, selectedBinderForView) # -1
    /\ LET binder == binders[BinderIndex(binders, selectedBinderForView) + 1]
           slot == InsertTarget(placementResult, segments, binder,
                                pageNumber, slotOnPage)
       IN  /\ pageNumber \in 1..binder.pageCount
           /\ slotOnPage \in 1..binder.slotsPerPage
           /\ \A k \in PlacementsInBinder(placementResult, binder.id) :
                 ~(/\ placementResult.placements[k].pageNumber = pageNumber
                   /\ placementResult.placements[k].slotOnPage = slotOnPage)
           /\ insertTargetSlot' = IF slot.segmentId = "" THEN NoSlot ELSE slot
    /\ trip' = NoTrip
    /\ UNCHANGED <<segments, collectionVars, placementResult,
                   selectedBinderForView>>

\* handleCardSelected(card), from the card search opened by handleInsertCard
HandleCardSelected(cardId) ==
    /\ insertTargetSlot # NoSlot
    /\ TotalCards(segments) < MaxCards
    /\ InsertCardInSegment(insertTargetSlot.segmentId, cardId,
                           insertTargetSlot.insertBeforeCardId)
    /\ placementResult' = Recalculate(segments')
    /\ trip' = TripAfterInsert(insertTargetSlot.segmentId,
                               insertTargetSlot.insertBeforeCardId)
    /\ insertTargetSlot' = NoSlot
    /\ UNCHANGED selectedBinderForView

\* cancelCardSearch()
CancelCardSearch ==
    /\ insertTargetSlot # NoSlot
    /\ insertTargetSlot' = NoSlot
    /\ trip' = NoTrip
    /\ UNCHANGED <<segments, collectionVars, placementResult,
                   selectedBinderForView>>

\* the (segmentId, cardIndexInSegment) of the placed cards, whose menus call
\* the handlers
PlacedCards ==
    {<<placementResult.placements[k].segmentId,
       placementResult.placements[k].cardIndexInSegment>> :
        k \in 1..Len(placementResult.placements)}

\* what the handlers of the editor leave alone
editorFrame ==
    <<binders, cardMap, binderNextSlot, cardLoop, firstResult, callNo, planVars, asyncVars>>

NextEditor ==
    \/ \E k \in 1..Len(binders) :
          ViewBinder(binders[k].id) /\ UNCHANGED editorFrame
    \/ \E k \in 1..Len(segments) : \E offset \in PairOffsetChoices :
          UpdateSegmentOffset(k, offset) /\ UNCHANGED editorFrame
    \/ \E pc \in PlacedCards :
          HandleRemoveCard(pc[1], pc[2]) /\ UNCHANGED editorFrame
    \/ \E pc \in PlacedCards :
          HandleAddSpacer(pc[1], pc[2]) /\ UNCHANGED editorFrame
    \/ \E pc \in PlacedCards :
          HandleRemoveSpacer(pc[1], pc[2]) /\ UNCHANGED editorFrame
    \/ \E k \in 1..Len(binders) :
       \E pageNumber \in 1..binders[k].pageCount :
       \E slotOnPage \in 1..binders[k].slotsPerPage :
          /\ binders[k].id = selectedBinderForView
          /\ HandleInsertCard(pageNumber, slotOnPage)
          /\ UNCHANGED editorFrame
    \/ \E c \in StoreCardIds : HandleCardSelected(c) /\ UNCHANGED editorFrame
    \/ CancelCardSearch /\ UNCHANGED editorFrame

SpecEditor == InitEditor /\ [][NextEditor]_vars

----------------------------------------------------------------------------
(* The plans store and the binders store *)

PlanIds == <<"p1", "p2">>

\* a stored container, by what removeBinder reads of it
StoredBinder(id, cover) == [id |-> id, hasCoverImage |-> cover]

\* plans.findIndex(p => p.id === id) / planMap.get(id), -1 when absent
PlanIndex(ps, id) ==
    LET hits == {k \in 0..(Len(ps) - 1) : ps[k + 1].id = id}
    IN  IF hits = {} THEN -1 ELSE Min(hits)

\* binders.findIndex(b => b.id === id), -1 when absent
StoredIndex(bs, id) ==
    LET hits == {k \in 0..(Len(bs) - 1) : bs[k + 1].id = id}
    IN  IF hits = {} THEN -1 ELSE Min(hits)

\* xs.splice(index, 1) for any index: nothing is removed past the end
Splice1(xs, index) == IF index < Len(xs) THEN SpliceOut(xs, index) ELSE xs

\* the orders of the ids of a list
Reorderings(ids) ==
    {o \in [1..Len(ids) -> {ids[i] : i \in 1..Len(ids)}] :
        \A i, j \in 1..Len(ids) : i # j => o[i] # o[j]}

\* both stores as loaded from storage: two containers, with or without a
\* cover image, and no plan yet
InitPlans ==
    /\ \E c1 \in BOOLEAN : \E c2 \in BOOLEAN :
          storedBinders = <<StoredBinder(BinderIds[1], c1),
                            StoredBinder(BinderIds[2], c2)>>
    /\ plans = <<>>
    /\ removing = {}
    /\ pending = {}
    /\ segments = <<>>
    /\ binders = <<>>
    /\ cardMap = Resolvable
    /\ binderNextSlot = <<>>
    /\ cardLoop = <<>>
    /\ placementResult = NoResult
    /\ firstResult = NoResult
    /\ callNo = 0
    /\ ownedCardIds = {}
    /\ skippedCardIds = {}
    /\ selectedBinderForView = NoView
    /\ insertTargetSlot = NoSlot
    /\ trip = NoTrip

\* createPlan(name): a new plan without containers
CreatePlan(id) ==
    /\ PlanIndex(plans, id) = -1
    /\ plans' = Append(plans, [id |-> id, binderIds |-> <<>>])
    /\ UNCHANGED <<storedBinders, removing>>

\* removePlan(id)
RemovePlan(id) ==
    LET index == PlanIndex(plans, id) IN
    /\ plans' = IF index # -1 THEN SpliceOut(plans, index) ELSE plans
    /\ UNCHANGED <<storedBinders, removing>>

\* addBinderToPlan(planId, binderId)
AddBinderToPlan(planId, binderId) ==
    LET k == PlanIndex(plans, planId) IN
    /\ plans' = IF k # -1 /\ IndexOf(plans[k + 1].binderIds, binderId) = -1
                THEN [plans EXCEPT ![k + 1].binderIds = Append(@, binderId)]
                ELSE plans
    /\ UNCHANGED <<storedBinders, removing>>

\* removeBinderFromPlan(planId, binderId)
RemoveBinderFromPlan(planId, binderId) ==
    LET k == PlanIndex(plans, planId) IN
    /\ plans' = IF k # -1 /\ IndexOf(plans[k + 1].binderIds, binderId) # -1
                THEN [plans EXCEPT ![k + 1].binderIds =
                         SpliceOut(@, IndexOf(plans[k + 1].binderIds, binderId))]
                ELSE plans
    /\ UNCHANGED <<storedBinders, removing>>

\* reorderBinders(planId, binderIds)
ReorderBinders(planId, binderIds) ==
    LET k == PlanIndex(plans, planId) IN
    /\ plans' = IF k # -1 THEN [plans EXCEPT ![k + 1].binderIds = binderIds]
                ELSE plans
    /\ UNCHANGED <<storedBinders, removing>>

\* the record of a removeBinder call that has spliced the store
TripAfterRemoveBinder(id) ==
    [NoTrip EXCEPT !.stage = "binderRemoved", !.seg = id]

\* removeBinder(id) up to its await: the index is looked up; a container
\* without cover image is spliced out at once, one with a cover image after
\* deleteBinderImage has settled.  The plans store is not called.
RemoveBinder(id) ==
    LET index == StoredIndex(storedBinders, id) IN
    /\ IF index = -1
       THEN UNCHANGED <<storedBinders, removing>> /\ trip' = Rejected
       ELSE IF storedBinders[index + 1].hasCoverImage
       THEN /\ removing' = removing \cup {[id |-> id, index |-> index]}
            /\ UNCHANGED storedBinders
            /\ trip' = NoTrip
       ELSE /\ storedBinders' = SpliceOut(storedBinders, index)
            /\ UNCHANGED removing
            /\ trip' = TripAfterRemoveBinder(id)
    /\ UNCHANGED plans

\* removeBinder after its await: the splice at the index found before it
RemoveBinderResume(call) ==
    /\ call \in removing
    /\ removing' = removing \ {call}
    /\ storedBinders' = Splice1(storedBinders, call.index)
    /\ trip' = TripAfterRemoveBinder(call.id)
    /\ UNCHANGED plans

\* what the calls of the plans store and the binders store leave alone
plansFrame ==
    <<segments, binders, cardMap, engineVars, collectionVars, viewVars, asyncVars>>

\* the ids the plan editor offers for a plan: those of the stored containers
StoredIds == {storedBinders[i].id : i \in 1..Len(storedBinders)}

NextPlans ==
    \/ \E id \in {PlanIds[i] : i \in 1..Len(PlanIds)} :
          CreatePlan(id) /\ trip' = NoTrip /\ UNCHANGED plansFrame
    \/ \E id \in {PlanIds[i] : i \in 1..Len(PlanIds)} :
          RemovePlan(id) /\ trip' = NoTrip /\ UNCHANGED plansFrame
    \/ \E k \in 1..Len(plans) : \E id \in StoredIds :
          AddBinderToPlan(plans[k].id, id) /\ trip' = NoTrip /\ UNCHANGED plansFrame
    \/ \E k \in 1..Len(plans) : \E id \in StoredIds :
          /\ RemoveBinderFromPlan(plans[k].id, id)
          /\ trip' = NoTrip
          /\ UNCHANGED plansFrame
    \/ \E k \in 1..Len(plans) : \E order \in Reorderings(plans[k].binderIds) :
          ReorderBinders(plans[k].id, order) /\ trip' = NoTrip /\ UNCHANGED plansFrame
    \/ \E id \in {BinderIds[i] : i \in 1..Len(BinderIds)} :
          RemoveBinder(id) /\ UNCHANGED plansFrame
    \/ \E call \in removing :
          RemoveBinderResume(call) /\ UNCHANGED plansFrame

SpecPlans == InitPlans /\ [][NextPlans]_vars

----------------------------------------------------------------------------

(* The plan editor with its awaits: a handler edits the store and starts a
   recomputation, which reads its arguments, awaits the card lookup and then
   runs the engine and stores the result.  Other handlers run meanwhile. *)

MaxPending == 2      \* most recomputations awaiting the card lookup at once

\* a call of calculatePlacements(planSegments.value, planBinders.value) at
\* its await: started is the segments as read for allCardIds; segs is what
\* the segment objects it was passed hold now; shared[k] tells that the
\* object of segment k is still the one the store holds
StartCalc(segs) ==
    [started |-> segs, segs |-> segs, shared |-> [k \in 1..Len(segs) |-> TRUE]]

\* allCardIds, as a set
AllCardIds(segs) ==
    UNION {{segs[k].cardIds[i] : i \in 1..Len(segs[k].cardIds)} : k \in 1..Len(segs)}

\* the calls at their await after the store replaced the object of segment
\* k by a copy { ...segment, ...updates }: they keep the old object
AfterReplace(calls, k) ==
    {[c EXCEPT !.shared[k] = FALSE] : c \in calls}

\* the calls at their await after removeCardAtIndex edited segment k in
\* place: the cardIds array is shared by every copy of the segment object,
\* the new spacersBefore is assigned to the store's object only
AfterInPlace(calls, k, seg) ==
    {[c EXCEPT !.segs[k] = IF c.shared[k] THEN seg
                           ELSE [@ EXCEPT !.cardIds = seg.cardIds]] : c \in calls}

\* the editor after mount: one plan with one segment and one binder of one
\* page, the immediate watch has stored its result
AsyncBinderLists == {<<MkBinder(BinderIds[1], Pages(1, 9))>>}

InitAsync ==
    /\ \E bs \in AsyncBinderLists :
       \E l \in 1..MaxCards : \E c \in [1..l -> StoreCardIds] :
          /\ binders = bs
          /\ segments = <<NewSegment(SegmentIds[1], c)>>
          /\ placementResult =
                CalculatePlacements(<<NewSegment(SegmentIds[1], c)>>, bs, Resolvable)
          /\ selectedBinderForView = bs[1].id
    /\ cardMap = Resolvable
    /\ binderNextSlot = <<>>
    /\ cardLoop = <<>>
    /\ firstResult = NoResult
    /\ callNo = 0
    /\ ownedCardIds = {}
    /\ skippedCardIds = {}
    /\ insertTargetSlot = NoSlot
    /\ trip = NoTrip
    /\ plans = <<>>
    /\ storedBinders = <<>>
    /\ removing = {}
    /\ pending = {}

\* updateSegmentOffset(segment, offset): updateSegment replaces the segment
\* object, the watch on planSegments starts a recomputation
UpdateSegmentOffsetAsync(k, offset) ==
    /\ Cardinality(pending) < MaxPending
    /\ segments' = [segments EXCEPT ![k].offset = offset]
    /\ pending' = AfterReplace(pending, k) \cup {StartCalc(segments')}
    /\ UNCHANGED <<collectionVars, placementResult>>

\* handleRemoveCard up to the await of the card lookup
HandleRemoveCardAsync(segmentId, cardIndex) ==
    /\ Cardinality(pending) < MaxPending
    /\ RemoveCardAtIndex(segmentId, cardIndex)
    /\ LET k == SegmentIndex(segments, segmentId) + 1 IN
       pending' = AfterInPlace(pending, k, segments'[k]) \cup {StartCalc(segments')}
    /\ UNCHANGED placementResult

\* handleAddSpacer up to the await of the card lookup: addSpacerBefore
\* replaces the segment object
HandleAddSpacerAsync(segmentId, cardIndex) ==
    /\ Cardinality(pending) < MaxPending
    /\ AddSpacerBefore(segmentId, cardIndex)
    /\ LET k == SegmentIndex(segments, segmentId) + 1 IN
       pending' = AfterReplace(pending, k) \cup {StartCalc(segments')}
    /\ UNCHANGED placementResult

\* handleRemoveSpacer up to the await of the card lookup: removeSpacerBefore
\* replaces the segment object when the card has a blank before it
HandleRemoveSpacerAsync(segmentId, cardIndex) ==
    /\ Cardinality(pending) < MaxPending
    /\ RemoveSpacerBefore(segmentId, cardIndex)
    /\ LET k == SegmentIndex(segments, segmentId) + 1 IN
       pending' = (IF segments' = segments THEN pending
                   ELSE AfterReplace(pending, k)) \cup {StartCalc(segments')}
    /\ UNCHANGED placementResult

\* a call resumes after `await getCachedCards(allCardIds)`: the engine runs on
\* the segment objects as they are now, with the cards looked up for the ids
\* read before the await, and the handler stores the result
CompleteCalc(c) ==
    /\ c \in pending
    /\ pending' = pending \ {c}
    /\ LET cm == AllCardIds(c.started) \cap cardMap
           run == EngineRun(c.segs, binders, cm, InitNextSlot(binders))
       IN  placementResult' = ResultOf(run, c.started, binders)
    /\ UNCHANGED <<segments, collectionVars>>

\* the positions the segment rows of the editor offer
CardPositions ==
    UNION {{<<segments[k].id, i>> : i \in 0..(Len(segments[k].cardIds) - 1)} :
              k \in 1..Len(segments)}

asyncFrame ==
    <<binders, cardMap, binderNextSlot, cardLoop, firstResult, callNo, viewVars, trip,
      planVars>>

NextAsync ==
    \/ \E k \in 1..Len(segments) : \E offset \in PairOffsetChoices :
          UpdateSegmentOffsetAsync(k, offset) /\ UNCHANGED asyncFrame
    \/ \E pc \in CardPositions :
          HandleRemoveCardAsync(pc[1], pc[2]) /\ UNCHANGED asyncFrame
    \/ \E pc \in CardPositions :
          HandleAddSpacerAsync(pc[1], pc[2]) /\ UNCHANGED asyncFrame
    \/ \E pc \in CardPositions :
          HandleRemoveSpacerAsync(pc[1], pc[2]) /\ UNCHANGED asyncFrame
    \/ \E c \in pending :
          CompleteCalc(c) /\ UNCHANGED asyncFrame

SpecAsync == InitAsync /\ [][NextAsync]_vars

----------------------------------------------------------------------------

(* Properties of calculatePlacements, checked under SpecPlace *)

Returned == callNo >= 1

OverflowTotal(res) ==
    SumSeq([k \in 1..Len(res.overflow) |-> res.overflow[k].overflowCount])

PlacedIn(res, binderId) ==
    {k \in 1..Len(res.placements) : res.placements[k].binderId = binderId}

AllResolved(seg) == \A i \in 1..Len(seg.cardIds) : seg.cardIds[i] \in cardMap

\* the page and slot-on-page of linear slot `slot` of binder b
LocatedAt(p, b, slot) ==
    IF b.type = "box"
    THEN p.pageNumber = 1 /\ p.slotOnPage = slot + 1
    ELSE /\ p.pageNumber = (slot \div b.slotsPerPage) + 1
         /\ p.slotOnPage = (slot % b.slotsPerPage) + 1

\* C1: Conservation.  In every result totalCards is the sum of the segments'
\* card-sequence lengths, and the number of placements plus the sum of the
\* overflow counts is totalCards: every card position, resolved by the
\* lookup or not, is placed or counted as overflow.
C1_Conservation ==
    Returned =>
        /\ placementResult.totalCards = TotalCards(segments)
        /\ Len(placementResult.placements) + OverflowTotal(placementResult)
              = placementResult.totalCards

\* C2: Capacity bound.  In every result, the number of placements assigned
\* to a container never exceeds the container's capacity.
C2_CapacityBound ==
    Returned =>
        \A i \in 1..Len(binders) :
            Cardinality(PlacedIn(placementResult, binders[i].id))
                <= BinderCapacity(binders[i])

\* a bounded container that holds as many placements as it has slots while
\* further cards overflowed
C2_Witness ==
    /\ Returned
    /\ placementResult.overflow # <<>>
    /\ \E i \in 1..Len(binders) :
          /\ binders[i].type = "binder"
          /\ Cardinality(PlacedIn(placementResult, binders[i].id))
                = BinderCapacity(binders[i])

C4_SingleBinderFill ==
    (/\ Returned
     /\ Len(binders) = 1 /\ binders[1].type = "binder"
     /\ Len(segments) = 1
     /\ segments[1].targetBinderId = NoTarget
     /\ DOMAIN segments[1].spacersBefore = {}
     /\ AllResolved(segments[1]))
    => LET C == BinderCapacity(binders[1])
           n == Len(segments[1].cardIds)
           k == segments[1].offset
           room == IF C - k > 0 THEN C - k ELSE 0
           placed == IF n < room THEN n ELSE room
           res == placementResult
       IN  /\ Len(res.placements) = placed
           /\ \A j \in 1..Len(res.placements) :
                 /\ res.placements[j].segmentId = segments[1].id
                 /\ res.placements[j].cardIndexInSegment = j - 1
                 /\ res.placements[j].binderId = binders[1].id
                 /\ LocatedAt(res.placements[j], binders[1], k + j - 1)
           /\ res.overflow =
                 IF n > placed
                 THEN <<[segmentId |-> segments[1].id,
                         overflowCount |-> n - placed]>>
                 ELSE <<>>

\* scenario 2: capacity 18, 20 cards, offset 3: first card at page 1 slot 4,
\* 15 cards placed, overflowCount 5
C4_Witness ==
    /\ Returned
    /\ binders = ScenarioBinders
    /\ Len(segments) = 1 /\ Len(segments[1].cardIds) = 20
    /\ segments[1].offset = 3
    /\ Len(placementResult.placements) = 15
    /\ placementResult.placements[1].pageNumber = 1
    /\ placementResult.placements[1].slotOnPage = 4
    /\ placementResult.overflow = <<[segmentId |-> "s1", overflowCount |-> 5]>>

\* the blanks recorded before positions 0..p of a segment
RECURSIVE BlanksUpTo(_, _)
BlanksUpTo(seg, p) ==
    IF p < 0 THEN 0
    ELSE (IF p \in DOMAIN seg.spacersBefore THEN seg.spacersBefore[p] ELSE 0)
         + BlanksUpTo(seg, p - 1)

\* C5: Spacers leave blanks immediately before their card.  One segment with
\* offset 0 placed into one empty unbounded container: the card at position
\* p lands at linear index p + (sum of the spacer counts of positions 0..p).
C5_SpacersBeforeCard ==
    (/\ Returned
     /\ Len(binders) = 1 /\ binders[1].type = "box"
     /\ Len(segments) = 1
     /\ segments[1].offset = 0
     /\ AllResolved(segments[1]))
    => LET res == placementResult IN
       /\ Len(res.placements) = Len(segments[1].cardIds)
       /\ res.overflow = <<>>
       /\ \A j \in 1..Len(res.placements) :
             /\ res.placements[j].cardIndexInSegment = j - 1
             /\ res.placements[j].binderId = binders[1].id
             /\ res.placements[j].pageNumber = 1
             /\ res.placements[j].slotOnPage - 1
                   = (j - 1) + BlanksUpTo(segments[1], j - 1)

\* scenario 3: five cards with spacer map {2: 1} occupy linear indices
\* 0, 1, 3, 4, 5
C5_Witness ==
    /\ Returned
    /\ segments = SpacerScenarioSegments
    /\ binders = SpacerScenarioBinders
    /\ [j \in 1..5 |-> placementResult.placements[j].slotOnPage - 1]
          = <<0, 1, 3, 4, 5>>

\* the counters when the first segment has been processed
AfterFirstSegment ==
    EngineRun(<<segments[1]>>, binders, cardMap,
              [id \in {binders[i].id : i \in 1..Len(binders)} |-> 0]).nextSlot

\* two segments, the first leaves container A (the second's target) without
\* a free slot, the second has a first card
FilledTarget ==
    /\ Returned
    /\ Len(segments) = 2
    /\ segments[2].cardIds # <<>>
    /\ AllResolved(segments[2])
    /\ TargetBinderIndex(segments[2], binders) # -1
    /\ LET A == binders[TargetBinderIndex(segments[2], binders) + 1]
       IN  AfterFirstSegment[A.id] >= BinderCapacity(A)

FirstCardOfSecond(p) == p.segmentId = segments[2].id /\ p.cardIndexInSegment = 0

FirstCardOverflows ==
    /\ \A j \in 1..Len(placementResult.placements) :
          ~FirstCardOfSecond(placementResult.placements[j])
    /\ \E k \in 1..Len(placementResult.overflow) :
          /\ placementResult.overflow[k].segmentId = segments[2].id
          /\ placementResult.overflow[k].overflowCount >= 1

\* C6 as stated: whenever the first segment fills container A completely
\* and the second segment targets A, the second segment's first card is
\* counted as overflow, with A the only container or not.
C6_Original == FilledTarget => FirstCardOverflows

\* the containers after the target that have room for the blanks and the
\* first card of the second segment
LaterWithRoom ==
    {i \in (TargetBinderIndex(segments[2], binders) + 1)..(Len(binders) - 1) :
        AfterFirstSegment[binders[i + 1].id] + SpacerCount(segments[2], 0)
            < BinderCapacity(binders[i + 1])}

\* C6 (amended): when the first segment fills container A completely and
\* the second segment targets A, the second segment's first card is counted
\* as overflow exactly when no container after A in the order has room for
\* its blanks and the card (so always when A is the only or the last
\* container); otherwise it is placed in the first such later container.
C6_FilledTarget ==
    FilledTarget =>
        IF LaterWithRoom = {}
        THEN FirstCardOverflows
        ELSE \E j \in 1..Len(placementResult.placements) :
                /\ FirstCardOfSecond(placementResult.placements[j])
                /\ placementResult.placements[j].binderIndex = Min(LaterWithRoom)

\* the target is full and the card went to the container after it
C6_Witness ==
    /\ FilledTarget
    /\ LaterWithRoom # {}
    /\ \E j \in 1..Len(placementResult.placements) :
          /\ FirstCardOfSecond(placementResult.placements[j])
          /\ placementResult.placements[j].binderId # segments[2].targetBinderId

----------------------------------------------------------------------------
(* Properties of the segments store, checked under SpecStore *)

EditedBefore == trip.snap[SegmentIndex(trip.snap, trip.seg) + 1]
EditedNow == segments[SegmentIndex(segments, trip.seg) + 1]

\* C7: when insertCardInSegment puts the new card at position p and the
\* spacer map held N >= 1 at p, the new map has no entry at p, holds N - 1 at
\* p + 1 when N > 1 and no entry at p + 1 when N = 1, every other entry at or
\* above p is moved up by exactly 1 with its count, entries below p are
\* unchanged, and the map has no further entry.
C7_GapConsumption ==
    trip.stage = "inserted" =>
        LET old == EditedBefore.spacersBefore
            new == EditedNow.spacersBefore
            pos == trip.pos
        IN  (pos \in DOMAIN old /\ old[pos] >= 1) =>
               /\ pos \notin DOMAIN new
               /\ old[pos] > 1 => (pos + 1 \in DOMAIN new /\ new[pos + 1] = old[pos] - 1)
               /\ old[pos] = 1 => pos + 1 \notin DOMAIN new
               /\ \A i \in DOMAIN old :
                     i > pos => (i + 1 \in DOMAIN new /\ new[i + 1] = old[i])
               /\ \A i \in DOMAIN old :
                     i < pos => (i \in DOMAIN new /\ new[i] = old[i])
               /\ DOMAIN new \subseteq
                     {i \in DOMAIN old : i < pos}
                     \cup {i + 1 : i \in {j \in DOMAIN old : j >= pos}}

\* an insert into a gap of one blank, with another entry above the gap
C7_Witness ==
    /\ trip.stage = "inserted"
    /\ trip.pos \in DOMAIN EditedBefore.spacersBefore
    /\ EditedBefore.spacersBefore[trip.pos] >= 1
    /\ \E i \in DOMAIN EditedBefore.spacersBefore : i > trip.pos
    /\ Len(EditedNow.cardIds) = Len(EditedBefore.cardIds) + 1

\* C9: when a card is inserted so that it lands at a position p that has 0
\* spacers and the card at p is then removed, the card sequence and the
\* spacer map are the ones before the insert.
C9_InsertRemoveInverse ==
    (trip.stage = "insertedRemoved" /\ SpacerCount(EditedBefore, trip.pos) = 0) =>
        /\ EditedNow.cardIds = EditedBefore.cardIds
        /\ EditedNow.spacersBefore = EditedBefore.spacersBefore

\* an insert before a card that has no spacers, below a card that has some,
\* followed by the removal at the same position
C9_Witness ==
    /\ trip.stage = "insertedRemoved"
    /\ trip.pos < Len(EditedBefore.cardIds)
    /\ SpacerCount(EditedBefore, trip.pos) = 0
    /\ \E i \in DOMAIN EditedBefore.spacersBefore : i > trip.pos

\* C10: addSpacerBefore at a valid position p followed by removeSpacerBefore
\* at p restores the count at p, leaves every other entry and the card
\* sequence unchanged, and an entry absent before is absent again.
C10_SpacerRoundTrip ==
    trip.stage = "addedRemoved" =>
        LET old == EditedBefore.spacersBefore
            new == EditedNow.spacersBefore
            pos == trip.pos
        IN  /\ SpacerCount(EditedNow, pos) = SpacerCount(EditedBefore, pos)
            /\ DOMAIN new \ {pos} = DOMAIN old \ {pos}
            /\ \A i \in DOMAIN old \ {pos} : new[i] = old[i]
            /\ EditedNow.cardIds = EditedBefore.cardIds
            /\ pos \notin DOMAIN old => pos \notin DOMAIN new

\* a round trip at a position without entry, in a map that has another entry
C10_Witness ==
    /\ trip.stage = "addedRemoved"
    /\ trip.pos \notin DOMAIN EditedBefore.spacersBefore
    /\ DOMAIN EditedBefore.spacersBefore # {}
    /\ ValidIndex(EditedBefore, trip.pos)

----------------------------------------------------------------------------
(* Properties of the plan editor, checked under SpecEditor *)

\* the linear slot index of a placement inside its container
LinearIndex(pl) ==
    SlotIndex(pl.pageNumber, pl.slotOnPage, binders[pl.binderIndex + 1])

\* the placement before the last insert: the result shown when the slot was
\* clicked, which is the placement of the segments of that moment
PlacementBeforeInsert == CalculatePlacements(trip.snap, binders, cardMap)

\* C8: after handleCardSelected has inserted a card at position p of a
\* segment that had N >= 1 spacers before p and has recomputed the placement
\* over the same containers, the new card is in the container of the old
\* card p, at a linear index inside the N blank slots that preceded it.
C8_InsertIntoGap ==
    trip.stage = "inserted" =>
        LET was == PlacementBeforeInsert.placements
            now == placementResult.placements
            n == SpacerCount(EditedBefore, trip.pos)
            oldCard == {k \in 1..Len(was) :
                          /\ was[k].segmentId = trip.seg
                          /\ was[k].cardIndexInSegment = trip.pos}
        IN  n >= 1 =>
               \A k \in oldCard :
                  \E j \in 1..Len(now) :
                     /\ now[j].segmentId = trip.seg
                     /\ now[j].cardIndexInSegment = trip.pos
                     /\ now[j].binderId = was[k].binderId
                     /\ LinearIndex(now[j]) \in
                           (LinearIndex(was[k]) - n)..(LinearIndex(was[k]) - 1)

----------------------------------------------------------------------------
(* Properties of the two stores together, checked under SpecCollection *)

\* the keys an insert at trip.pos of segment trip.seg has no reason to touch:
\* those of other segments and those of positions below trip.pos
Unrelated(key) == key.segmentId # trip.seg \/ key.index < trip.pos

\* C11: after owned or skipped was toggled on a key K = segmentId:i, an
\* insert into the same segment at a position strictly greater than i, or an
\* append, leaves K owned exactly when it was owned and skipped exactly when
\* it was skipped, and no key of another segment enters or leaves either set.
C11_OwnershipStability ==
    trip.stage = "inserted" =>
        /\ {key \in ownedCardIds : Unrelated(key)}
              = {key \in trip.owned : Unrelated(key)}
        /\ {key \in skippedCardIds : Unrelated(key)}
              = {key \in trip.skipped : Unrelated(key)}

\* an insert before a card of the middle of the segment, with a key of a
\* lower position owned and a key of the other segment skipped
C11_Witness ==
    /\ trip.stage = "inserted"
    /\ trip.pos > 0
    /\ trip.pos < Len(EditedBefore.cardIds)
    /\ \E key \in trip.owned : key.segmentId = trip.seg /\ key.index < trip.pos
    /\ \E key \in trip.skipped : key.segmentId # trip.seg
    /\ Len(EditedNow.cardIds) = Len(EditedBefore.cardIds) + 1

----------------------------------------------------------------------------
(* Validity of the spacer keys, checked under SpecStore *)

\* C12: from segments created with an empty spacer map, after any sequence of
\* addSpacerBefore, removeSpacerBefore, insertCardInSegment and
\* removeCardAtIndex calls with any arguments, every key of every spacer map
\* is a position of a card of its segment, 0 <= key < length of the card
\* sequence; a call on an out-of-range position or on a segment that is not
\* stored leaves the segments and the key sets as they were.
C12_SpacerKeysValid ==
    /\ \A k \in 1..Len(segments) : \A key \in DOMAIN segments[k].spacersBefore :
          key >= 0 /\ key < Len(segments[k].cardIds)
    /\ trip.stage = "rejected" =>
          /\ segments = trip.snap
          /\ ownedCardIds = trip.owned
          /\ skippedCardIds = trip.skipped

\* a rejected call met a segment of two or more cards whose last card, and
\* not its first, has blanks before it
C12_Witness ==
    /\ trip.stage = "rejected"
    /\ \E k \in 1..Len(segments) :
          /\ Len(segments[k].cardIds) >= 2
          /\ Len(segments[k].cardIds) - 1 \in DOMAIN segments[k].spacersBefore
          /\ 0 \notin DOMAIN segments[k].spacersBefore

----------------------------------------------------------------------------
(* Ownership keys and unresolved ids in the placement result, checked under
   SpecPlace *)

\* getPlacementOwnershipKey(placement)
PlacementOwnershipKey(p) == OwnershipKey(p.segmentId, p.cardIndexInSegment)

\* C13: in every placement result over segments with distinct ids, no two
\* placements have the same ownership key segmentId:position, and the
\* position of a placement is the 0-based index of its card in the card
\* sequence of its segment: the placed card's id is cardIds[position],
\* whichever container the card lands in.
C13_OwnershipKeysUnique ==
    Returned =>
        LET ps == placementResult.placements IN
        /\ \A i, j \in 1..Len(ps) :
              i # j => PlacementOwnershipKey(ps[i]) # PlacementOwnershipKey(ps[j])
        /\ \A i \in 1..Len(ps) : \E k \in 1..Len(segments) :
              /\ segments[k].id = ps[i].segmentId
              /\ ps[i].cardIndexInSegment >= 0
              /\ ps[i].cardIndexInSegment < Len(segments[k].cardIds)
              /\ segments[k].cardIds[ps[i].cardIndexInSegment + 1] = ps[i].card

\* two segments whose cards at the same position land in different
\* containers, one of them at a position above 0
C13_Witness ==
    /\ Returned
    /\ Len(segments) = 2
    /\ \E i, j \in 1..Len(placementResult.placements) :
          LET p == placementResult.placements[i]
              q == placementResult.placements[j]
          IN  /\ p.segmentId # q.segmentId
              /\ p.cardIndexInSegment = q.cardIndexInSegment
              /\ p.binderIndex # q.binderIndex
    /\ \E i \in 1..Len(placementResult.placements) :
          placementResult.placements[i].cardIndexInSegment > 0

\* the positions of seg whose id the lookup resolves, in order
ResolvedPositions(seg) ==
    {i \in 0..(Len(seg.cardIds) - 1) : seg.cardIds[i + 1] \in cardMap}

\* the position of seg that is the r-th resolved one (r from 0)
OriginalIndex(seg, r) ==
    CHOOSE i \in ResolvedPositions(seg) :
        Cardinality({j \in ResolvedPositions(seg) : j < i}) = r

\* seg as if its unresolved positions did not exist: the resolved cards in
\* order, each with the blanks it had
ResolvedOnly(seg) ==
    LET n == Cardinality(ResolvedPositions(seg)) IN
    [seg EXCEPT
        !.cardIds = [r \in 1..n |-> seg.cardIds[OriginalIndex(seg, r - 1) + 1]],
        !.spacersBefore =
            [r \in {q \in 0..(n - 1) :
                       OriginalIndex(seg, q) \in DOMAIN seg.spacersBefore} |->
                seg.spacersBefore[OriginalIndex(seg, r)]]]

\* C14: a position whose card id the lookup does not resolve produces no
\* placement and consumes no slot and none of its spacers: the placements,
\* the overflow and the counters are those of the same segments without the
\* unresolved positions, and every placed card carries its own index in the
\* full card sequence as its position, not its index among the resolved ones.
C14_UnresolvedSkipped ==
    Returned =>
        LET reduced == [k \in 1..Len(segments) |-> ResolvedOnly(segments[k])]
            run == EngineRun(reduced, binders, cardMap, InitNextSlot(binders))
            ps == placementResult.placements
        IN  /\ \A i \in 1..Len(ps) : ps[i].card \in cardMap
            /\ Len(ps) = Len(run.placements)
            /\ \A i \in 1..Len(ps) :
                  LET k == SegmentIndex(segments, ps[i].segmentId) + 1 IN
                  ps[i] = [run.placements[i] EXCEPT
                              !.cardIndexInSegment = OriginalIndex(segments[k], @)]
            /\ placementResult.overflow = run.overflow
            /\ binderNextSlot = run.nextSlot

\* an unresolved id with a blank before it, followed by a card that is placed
C14_Witness ==
    /\ Returned
    /\ \E k \in 1..Len(segments) : \E u \in 0..(Len(segments[k].cardIds) - 1) :
          /\ segments[k].cardIds[u + 1] \notin cardMap
          /\ BlanksUpTo(segments[k], u) > BlanksUpTo(segments[k], u - 1)
          /\ \E i \in 1..Len(placementResult.placements) :
                /\ placementResult.placements[i].segmentId = segments[k].id
                /\ placementResult.placements[i].cardIndexInSegment > u

\* seg with a target id that names no container of bs replaced by no target
WithoutMissingTarget(seg, bs) ==
    IF seg.targetBinderId \in {bs[i].id : i \in 1..Len(bs)}
    THEN seg ELSE [seg EXCEPT !.targetBinderId = NoTarget]

\* C15: a segment whose target container id names a container that is not in
\* the container list is placed exactly as the same segment with no target:
\* the whole placement result (placements, overflow, totals) and the counters
\* are identical in the two cases.
C15_InvalidTargetIsNoTarget ==
    Returned =>
        LET untargeted == [k \in 1..Len(segments) |->
                              WithoutMissingTarget(segments[k], binders)]
            run == EngineRun(untargeted, binders, cardMap, InitNextSlot(binders))
        IN  /\ placementResult = ResultOf(run, untargeted, binders)
            /\ binderNextSlot = run.nextSlot

\* a second segment with an offset and a target id that is in no container,
\* met with a first container that is full: its card is in the second one
C15_Witness ==
    /\ Returned
    /\ Len(segments) = 2 /\ Len(binders) = 2
    /\ segments[2].targetBinderId = MissingBinder
    /\ segments[2].offset > 0
    /\ AfterFirstSegment[binders[1].id] >= BinderCapacity(binders[1])
    /\ \E i \in 1..Len(placementResult.placements) :
          /\ placementResult.placements[i].segmentId = segments[2].id
          /\ placementResult.placements[i].binderIndex = 1

----------------------------------------------------------------------------
(* Deletion of a segment, checked under SpecCollection *)

\* the keys of segment id in the owned set and in the skipped set
KeysOfSegment(id) ==
    {key \in ownedCardIds \cup skippedCardIds : key.segmentId = id}

\* C16: after removeSegment has deleted a segment, the owned set and the
\* skipped set contain no key whose segment id is that of the deleted
\* segment.
C16_DeletionCascades ==
    trip.stage = "segmentRemoved" => KeysOfSegment(trip.seg) = {}

----------------------------------------------------------------------------
(* Deletion of a container, checked under SpecPlans *)

\* C17: after removeBinder has deleted a container from the binders store,
\* no plan's ordered list of container ids still contains the id of that
\* container.
C17_DeletionLeavesNoReference ==
    (trip.stage = "binderRemoved" /\ trip.seg \notin StoredIds) =>
        \A k \in 1..Len(plans) : IndexOf(plans[k].binderIds, trip.seg) = -1

----------------------------------------------------------------------------
(* Slots and container order in the placement result, checked under
   SpecPlace *)

\* C19: within one placement result over containers with distinct ids, the
\* linear slot indices of the placements of each container are strictly
\* increasing in output order across all segments, so no two placements have
\* the same container, page and slot; a second segment with the same target
\* container continues from where the first left that container's counter.
C19_NoSlotTwice ==
    Returned =>
        LET ps == placementResult.placements IN
        \A i, j \in 1..Len(ps) :
            (i < j /\ ps[i].binderId = ps[j].binderId) =>
                /\ LinearIndex(ps[i]) < LinearIndex(ps[j])
                /\ <<ps[i].pageNumber, ps[i].slotOnPage>>
                      # <<ps[j].pageNumber, ps[j].slotOnPage>>

\* two segments with the same target container, both with a card in it
C19_Witness ==
    /\ Returned
    /\ Len(segments) = 2
    /\ segments[1].targetBinderId = segments[2].targetBinderId
    /\ \E i, j \in 1..Len(placementResult.placements) :
          LET p == placementResult.placements[i]
              q == placementResult.placements[j]
          IN  /\ p.segmentId = segments[1].id /\ q.segmentId = segments[2].id
              /\ p.binderId = segments[1].targetBinderId
              /\ q.binderId = p.binderId
              /\ LinearIndex(q) > LinearIndex(p)

\* the index of the container seg.targetBinderId names in the container
\* order, -1 when it names none
ResolvedTarget(seg) ==
    LET hits == {t \in 0..(Len(binders) - 1) :
                    binders[t + 1].id = seg.targetBinderId}
    IN  IF hits = {} THEN -1 ELSE Min(hits)

\* the overflow count reported for segment id, 0 when none is reported
OverflowOf(res, id) ==
    SumSeq([i \in 1..Len(res.overflow) |->
               IF res.overflow[i].segmentId = id
               THEN res.overflow[i].overflowCount ELSE 0])

\* C20: for a segment whose target container resolves to index t in the
\* container order, every card of the segment is placed in the target or in
\* a container with index greater than t, never in one with index less than
\* t, also when earlier containers have free slots and the card is then
\* reported as overflow.
C20_NeverBeforeTarget ==
    Returned =>
        \A k \in 1..Len(segments) :
            ResolvedTarget(segments[k]) # -1 =>
                \A i \in 1..Len(placementResult.placements) :
                    placementResult.placements[i].segmentId = segments[k].id =>
                        placementResult.placements[i].binderIndex
                            >= ResolvedTarget(segments[k])

\* a segment whose target is the second container has a card reported as
\* overflow while the first container still has a free slot
C20_Witness ==
    /\ Returned
    /\ Len(binders) = 2
    /\ \E k \in 1..Len(segments) :
          /\ ResolvedTarget(segments[k]) = 1
          /\ OverflowOf(placementResult, segments[k].id) > 0
    /\ binderNextSlot[binders[1].id] < BinderCapacity(binders[1])

----------------------------------------------------------------------------
(* Edits and recomputations, checked under SpecAsync *)

\* no recomputation awaits the card lookup of segments that have been edited
\* since it read them
NoEditWhilePending == \A c \in pending : c.started = segments

\* with no recomputation under way the stored result is the placement of the
\* current segments and containers
SettledResultCurrent ==
    pending = {} => placementResult = CalculatePlacements(segments, binders, cardMap)

\* C18: edits and recomputations are serialized: no mutation of a segment is
\* applied while a placement recomputation is still awaiting the card
\* lookup, so every recomputation reads one consistent segment state, and
\* once all pending recomputations have completed the stored placement
\* result is the placement of the current segments and containers.
C18_Serialized == NoEditWhilePending /\ SettledResultCurrent

----------------------------------------------------------------------------
(* The offset and the spacers in the counters, checked under SpecPlace *)

\* the slots the placed cards of segment k take in container id: one per
\* card and one per blank before it
SlotsTaken(res, k, id) ==
    SumSeq([i \in 1..Len(res.placements) |->
               IF /\ res.placements[i].segmentId = segments[k].id
                  /\ res.placements[i].binderId = id
               THEN 1 + BlanksUpTo(segments[k], res.placements[i].cardIndexInSegment)
                      - BlanksUpTo(segments[k],
                                   res.placements[i].cardIndexInSegment - 1)
               ELSE 0])

\* C21: for every segment with offset k > 0 whose first card is placed, the
\* k reserved blank slots are consumed from the container that receives the
\* first card: the card lands exactly k plus its own spacers after that
\* container's next-free index as it was before the segment started, and the
\* counter of every other container advances only by what the segment's
\* cards take in it.
C21_OffsetWithFirstCard ==
    Returned =>
        \A k \in 1..Len(segments) :
        \A i \in 1..Len(placementResult.placements) :
            LET p == placementResult.placements[i] IN
            (/\ segments[k].offset > 0
             /\ p.segmentId = segments[k].id
             /\ p.cardIndexInSegment = 0) =>
                /\ LinearIndex(p) = CountersBefore(k)[p.binderId]
                                      + segments[k].offset
                                      + BlanksUpTo(segments[k], 0)
                /\ \A b \in 1..Len(binders) :
                      binders[b].id # p.binderId =>
                          CountersAfter(k)[binders[b].id]
                             = CountersBefore(k)[binders[b].id]
                                 + SlotsTaken(placementResult, k, binders[b].id)

\* the locals of the card loop of segment k when it reaches position i
StateAt(k, i) == cardLoop[k][i + 1]

\* the containers the card loop of seg looks at: the target and those after
\* it, or all of them without a resolved target
Scanned(seg) ==
    {b \in 0..(Len(binders) - 1) :
        ResolvedTarget(seg) = -1 \/ b >= ResolvedTarget(seg)}

\* container b has fewer than s + 1 free slots at the counters nextSlot,
\* given in container order
TooFull(nextSlot, b, s) ==
    BinderCapacity(binders[b + 1]) - nextSlot[b + 1] < s + 1

\* the step of the card loop at position i of segment k, between two
\* consecutive states of the loop, spends nothing on a container that is too
\* full
StepSpendsNothing(states, k, i) ==
    LET seg == segments[k]
        s == BlanksUpTo(seg, i) - BlanksUpTo(seg, i - 1)
        before == states[i + 1]
        after == states[i + 2]
    IN  seg.cardIds[i + 1] \in cardMap =>
        /\ (\A b \in Scanned(seg) : TooFull(before.nextSlot, b, s)) =>
              /\ after.segmentOverflow = before.segmentOverflow + 1
              /\ after.nextSlot = before.nextSlot
              /\ after.placements = before.placements
        /\ \A b \in 0..(Len(binders) - 1) :
              TooFull(before.nextSlot, b, s) =>
                  after.nextSlot[b + 1] = before.nextSlot[b + 1]

\* C22: when a card with s blanks before it finds no container with at least
\* s + 1 free slots, it is counted as overflow and no container's counter
\* changes; a container with fewer than s + 1 free slots is never given the
\* card or any of its blanks: its counter is left as it was, so a following
\* card with fewer blanks can still use those slots.
C22_NoPartialSpacers ==
    Returned =>
        \A k \in 1..Len(segments) :
            LET states == cardLoop[k] IN
            \A i \in 0..(Len(segments[k].cardIds) - 1) :
                StepSpendsNothing(states, k, i)

\* a card with blanks before it overflows and a later card of the segment,
\* with fewer blanks, is placed in a container that was too full for it
C22_Witness ==
    /\ Returned
    /\ \E k \in 1..Len(segments) : \E i \in 0..(Len(segments[k].cardIds) - 1) :
          /\ BlanksUpTo(segments[k], i) > BlanksUpTo(segments[k], i - 1)
          /\ StateAt(k, i + 1).segmentOverflow = StateAt(k, i).segmentOverflow + 1
          /\ \E j \in 1..Len(placementResult.placements) :
                /\ placementResult.placements[j].segmentId = segments[k].id
                /\ placementResult.placements[j].cardIndexInSegment > i
                /\ TooFull(StateAt(k, i).nextSlot,
                           placementResult.placements[j].binderIndex,
                           BlanksUpTo(segments[k], i) - BlanksUpTo(segments[k], i - 1))

----------------------------------------------------------------------------
(* The cards counted as overflow, checked under SpecPlace *)

\* the positions of segment k whose card is counted in segmentOverflow
Overflowed(k) ==
    LET states == cardLoop[k] IN
    {i \in 0..(Len(segments[k].cardIds) - 1) :
        states[i + 2].segmentOverflow > states[i + 1].segmentOverflow}

\* the positions of segment k that have a placement in the result
Placed(k) ==
    {placementResult.placements[j].cardIndexInSegment :
        j \in {n \in 1..Len(placementResult.placements) :
                  placementResult.placements[n].segmentId = segments[k].id}}

\* the blanks before the card at position i of segment k
BlanksAt(k, i) == BlanksUpTo(segments[k], i) - BlanksUpTo(segments[k], i - 1)

\* C23 as stated: overflow is trailing: once one card of a segment
\* overflows, no later card of the same segment is placed.
C23_Original ==
    Returned =>
        \A k \in 1..Len(segments) : \A i \in Overflowed(k) : \A j \in Placed(k) :
            j < i

\* C23, amended: once a card of a segment with s blanks before it overflows,
\* no later card of the same segment with s or more blanks before it is
\* placed; in a segment without spacers every placed card therefore comes
\* before every overflowed card.
C23_OverflowMonotone ==
    Returned =>
        \A k \in 1..Len(segments) : \A i \in Overflowed(k) : \A j \in Placed(k) :
            j < i \/ BlanksAt(k, j) < BlanksAt(k, i)

\* a segment with a placed card and, after it, two overflowed cards, the
\* second with at least as many blanks as the first
C23_Witness ==
    /\ Returned
    /\ \E k \in 1..Len(segments) : \E i, j \in Overflowed(k) :
          /\ i < j
          /\ BlanksAt(k, j) >= BlanksAt(k, i)
          /\ BlanksAt(k, i) > 0
          /\ \E p \in Placed(k) : p < i

----------------------------------------------------------------------------
(* The flags of a card through inserts and removals, checked under
   SpecCollection *)

\* where the card at position i of the edited segment is after the edit:
\* an insert at trip.pos moves the cards from trip.pos on up by one, a
\* removal at trip.pos moves the cards after it down by one
MovedTo(i) ==
    IF trip.stage = "inserted"
    THEN IF i < trip.pos THEN i ELSE i + 1
    ELSE IF i < trip.pos THEN i ELSE i - 1

\* the positions of the edited segment whose card is still there
Kept ==
    {i \in 0..(Len(EditedBefore.cardIds) - 1) :
        trip.stage = "removed" => i # trip.pos}

\* the flags of one set follow the cards through the edit
FlagsFollow(before, now) ==
    /\ \A i \in Kept :
          OwnershipKey(trip.seg, MovedTo(i)) \in now
             <=> OwnershipKey(trip.seg, i) \in before
    /\ trip.stage = "inserted" => OwnershipKey(trip.seg, trip.pos) \notin now
    /\ \A key \in now :
          key.segmentId = trip.seg => key.index < Len(EditedNow.cardIds)
    /\ {key \in now : key.segmentId # trip.seg}
          = {key \in before : key.segmentId # trip.seg}

\* C24: after an insertCard or a removeCard on a segment, a card that was
\* owned (skipped) and was not removed is owned (skipped) at its new index,
\* a newly inserted card is neither owned nor skipped, the flags of a removed
\* card are dropped and not inherited by the card that moves into its index,
\* and the keys of other segments are untouched; every sequence of such
\* calls is a chain of these steps.
C24_FlagsFollowCard ==
    trip.stage \in {"inserted", "removed"} =>
        /\ FlagsFollow(trip.owned, ownedCardIds)
        /\ FlagsFollow(trip.skipped, skippedCardIds)

\* a removal of a flagged card that had a card after it: the card that
\* moved into the position is not flagged
C24_Witness ==
    /\ trip.stage = "removed"
    /\ OwnershipKey(trip.seg, trip.pos) \in trip.owned \cup trip.skipped
    /\ trip.pos < Len(EditedNow.cardIds)
    /\ OwnershipKey(trip.seg, trip.pos) \notin ownedCardIds \cup skippedCardIds

----------------------------------------------------------------------------
(* The position of an insert at a slot, checked under SpecEditor *)

\* the empty slots of the container shown whose click opens the card search
\* with the target that is open now, as <<pageNumber, slotOnPage>>
ClickedSlots ==
    IF insertTargetSlot = NoSlot \/ BinderIndex(binders, selectedBinderForView) = -1
    THEN {}
    ELSE LET binder == binders[BinderIndex(binders, selectedBinderForView) + 1] IN
         {s \in (1..binder.pageCount) \X (1..binder.slotsPerPage) :
             /\ \A k \in PlacementsInBinder(placementResult, binder.id) :
                   ~(/\ placementResult.placements[k].pageNumber = s[1]
                     /\ placementResult.placements[k].slotOnPage = s[2])
             /\ InsertTarget(placementResult, segments, binder, s[1], s[2])
                   = insertTargetSlot}

\* the placement after a clicked slot, 0 if none
AfterPlacementOf(s) ==
    LET binder == binders[BinderIndex(binders, selectedBinderForView) + 1] IN
    PlacementAfter(placementResult, binder, SlotIndex(s[1], s[2], binder))

\* C25: when the placement after the clicked slot belongs to the owning
\* segment, handleCardSelected inserts the new card into that segment at
\* exactly the sequence position of that placement: the cards before it keep
\* their positions, the "after" card and the later ones move up by one, also
\* when the segment holds the same card id at several positions.
C25_InsertBeforeAfterCard ==
    [][\A s \in ClickedSlots :
          LET a == AfterPlacementOf(s)
              k == SegmentIndex(segments, insertTargetSlot.segmentId) + 1
          IN  (/\ a # 0
               /\ placementResult.placements[a].segmentId
                     = insertTargetSlot.segmentId
               /\ insertTargetSlot' = NoSlot
               /\ segments' # segments)
              => \E c \in StoreCardIds :
                    segments'[k].cardIds =
                       SpliceIn(segments[k].cardIds,
                                placementResult.placements[a].cardIndexInSegment,
                                c)]_vars

----------------------------------------------------------------------------
(* The owning segment of an insert at a slot, checked under SpecEditor *)

\* the container shown
ViewedBinder == binders[BinderIndex(binders, selectedBinderForView) + 1]

\* the linear slot index of a page and slot of the container shown, as the
\* engine numbers the slots: a box is one page whose slots are numbered from 1
LinearSlot(pageNumber, slotOnPage) ==
    IF ViewedBinder.type = "box" THEN slotOnPage - 1
    ELSE (pageNumber - 1) * ViewedBinder.slotsPerPage + (slotOnPage - 1)

\* the linear slot indices taken by a card in the container shown
TakenSlots ==
    {LinearSlot(placementResult.placements[k].pageNumber,
                placementResult.placements[k].slotOnPage) :
        k \in PlacementsInBinder(placementResult, ViewedBinder.id)}

\* the empty slots of the container shown, as <<pageNumber, slotOnPage>>:
\* the slots of the pages of a binder, the slots up to one past the last
\* card of a box
EmptySlots ==
    LET slots == IF ViewedBinder.type = "box"
                 THEN {1} \X (1..(MaxCards + MaxSpacers + 1))
                 ELSE (1..ViewedBinder.pageCount) \X (1..ViewedBinder.slotsPerPage)
    IN  {s \in slots : LinearSlot(s[1], s[2]) \notin TakenSlots}

\* the segment of the placement of the container shown at a linear index
SegmentAt(i) ==
    LET k == CHOOSE k \in PlacementsInBinder(placementResult, ViewedBinder.id) :
                LinearSlot(placementResult.placements[k].pageNumber,
                           placementResult.placements[k].slotOnPage) = i
    IN  placementResult.placements[k].segmentId

\* the segment of the nearest placement below the slot if there is one,
\* otherwise of the nearest placement above it, "" in an empty container
NearestOwner(s) ==
    LET below == {i \in TakenSlots : i < LinearSlot(s[1], s[2])}
        above == {i \in TakenSlots : i > LinearSlot(s[1], s[2])}
    IN  IF below # {} THEN SegmentAt(CHOOSE i \in below : \A j \in below : j <= i)
        ELSE IF above # {} THEN SegmentAt(Min(above))
        ELSE ""

----------------------------------------------------------------------------
(* The spacer map through a removal, checked under SpecStore *)

\* C27: removing the card at a valid position p deletes the spacer entry at
\* p, so that the card moving into p does not get its blanks, moves every
\* entry at a position above p down by exactly 1 with its count unchanged
\* and leaves the entries below p as they are; a removal at a position out
\* of range changes nothing.
C27_RemoveRenumbersSpacers ==
    /\ trip.stage = "removed" =>
          LET was == EditedBefore.spacersBefore
              now == EditedNow.spacersBefore
              p == trip.pos
          IN  /\ EditedNow.cardIds = SpliceOut(EditedBefore.cardIds, p)
              /\ \A i \in 0..(Len(EditedBefore.cardIds) - 1) :
                    /\ i < p => /\ (i \in DOMAIN now) = (i \in DOMAIN was)
                                /\ i \in DOMAIN was => now[i] = was[i]
                    /\ i > p => /\ (i - 1 \in DOMAIN now) = (i \in DOMAIN was)
                                /\ i \in DOMAIN was => now[i - 1] = was[i]
              /\ \A i \in DOMAIN now : i < Len(EditedNow.cardIds)
              /\ \A k \in 1..Len(segments) :
                    segments[k].id # trip.seg =>
                       segments[k] = trip.snap[SegmentIndex(trip.snap,
                                                            segments[k].id) + 1]
    /\ (trip.stage = "rejected" /\ trip.seg # "") =>
          /\ segments = trip.snap
          /\ ownedCardIds = trip.owned
          /\ skippedCardIds = trip.skipped

\* the removal of a card with blanks before it whose successor had another
\* number of blanks, or none: the successor is at the position now, with
\* its own count
C27_Witness ==
    /\ trip.stage = "removed"
    /\ trip.pos \in DOMAIN EditedBefore.spacersBefore
    /\ trip.pos < Len(EditedNow.cardIds)
    /\ SpacerCount(EditedNow, trip.pos) # SpacerCount(EditedBefore, trip.pos)

----------------------------------------------------------------------------
(* An offset that fills the container it is applied to, checked under
   SpecPlace *)

\* the counters, in container order, when the loop of the call reached
\* segment k and when it left it
NextSlotBefore(k) ==
    IF k = 1 THEN [b \in 1..Len(binders) |-> 0]
    ELSE cardLoop[k - 1][Len(cardLoop[k - 1])].nextSlot

NextSlotAfter(k) == cardLoop[k][Len(cardLoop[k])].nextSlot

\* the index of the container the offset of segment k is applied to: the
\* target when it is one of the containers, else the first container with a
\* free slot when segment k starts; -1 when the offset is 0 or there is none
OffsetBinder(k) ==
    IF segments[k].offset <= 0 THEN -1
    ELSE IF ResolvedTarget(segments[k]) # -1 THEN ResolvedTarget(segments[k])
    ELSE LET free == {b \in 0..(Len(binders) - 1) :
                        NextSlotBefore(k)[b + 1]
                           < BinderCapacity(binders[b + 1])}
         IN  IF free = {} THEN -1 ELSE Min(free)

\* the offset of segment k is at least the room left in that container
OffsetFills(k) ==
    /\ OffsetBinder(k) # -1
    /\ segments[k].offset >=
          BinderCapacity(binders[OffsetBinder(k) + 1])
             - NextSlotBefore(k)[OffsetBinder(k) + 1]

\* the linear slot index of a placement in its container
IndexOfPlacement(pl) ==
    IF binders[pl.binderIndex + 1].type = "box" THEN pl.slotOnPage - 1
    ELSE (pl.pageNumber - 1) * binders[pl.binderIndex + 1].slotsPerPage
            + (pl.slotOnPage - 1)

----------------------------------------------------------------------------
(* The location of a placement and its linear index, checked under
   SpecPlace *)

\* the linear index the card at position p of segment k was put at: the
\* counter of its container in the state of the loop when it reached the
\* card, plus the blanks before the card
SlotOfCard(states, k, p, binderIndex) ==
    states[p + 1].nextSlot[binderIndex + 1] + BlanksAt(k, p)

\* C29: every placement in a bounded container has 1 <= pageNumber <=
\* pageCount, 1 <= slotOnPage <= slotsPerPage, pageNumber = floor(i /
\* slotsPerPage) + 1 and slotOnPage = (i mod slotsPerPage) + 1 for its
\* linear index i, so that (pageNumber - 1) * slotsPerPage + (slotOnPage - 1)
\* = i; every placement in an unbounded container has pageNumber = 1 and
\* slotOnPage = i + 1.
C29_SlotLocationRoundTrip ==
    Returned =>
        \A k \in 1..Len(segments) :
        LET states == cardLoop[k] IN
        \A j \in 1..Len(placementResult.placements) :
            LET pl == placementResult.placements[j]
                b == binders[pl.binderIndex + 1]
                i == SlotOfCard(states, k, pl.cardIndexInSegment, pl.binderIndex)
            IN  pl.segmentId = segments[k].id =>
                   IF b.type = "box"
                   THEN pl.pageNumber = 1 /\ pl.slotOnPage = i + 1
                   ELSE /\ pl.pageNumber \in 1..b.pageCount
                        /\ pl.slotOnPage \in 1..b.slotsPerPage
                        /\ pl.pageNumber = (i \div b.slotsPerPage) + 1
                        /\ pl.slotOnPage = (i % b.slotsPerPage) + 1
                        /\ SlotIndex(pl.pageNumber, pl.slotOnPage, b) = i

\* a card on the second page of a binder, not in the first slot of the page
C29_Witness ==
    /\ Returned
    /\ \E j \in 1..Len(placementResult.placements) :
          /\ binders[placementResult.placements[j].binderIndex + 1].type = "binder"
          /\ placementResult.placements[j].pageNumber = 2
          /\ placementResult.placements[j].slotOnPage >= 2

----------------------------------------------------------------------------
(* The spacer map holds no zero, checked under SpecStore *)

\* C30: starting from an empty spacer map, after any sequence of addSpacer,
\* removeSpacer, insertCard and removeCard every stored spacer count is an
\* integer >= 1: removeSpacer deletes the entry when the count reaches 0 and
\* changes nothing when the count is 0 or absent, and insertCard leaves no
\* entry of 0 when it consumes the last blank of a gap.
C30_SpacerMapSparse ==
    /\ \A k \in 1..Len(segments) : \A i \in DOMAIN segments[k].spacersBefore :
          segments[k].spacersBefore[i] \in Nat \ {0}
    /\ trip.stage = "spacerRemoved" =>
          IF trip.pos \in DOMAIN EditedBefore.spacersBefore
          THEN IF EditedBefore.spacersBefore[trip.pos] = 1
               THEN trip.pos \notin DOMAIN EditedNow.spacersBefore
               ELSE EditedNow.spacersBefore[trip.pos]
                       = EditedBefore.spacersBefore[trip.pos] - 1
          ELSE segments = trip.snap
    /\ (/\ trip.stage = "inserted"
        /\ trip.pos \in DOMAIN EditedBefore.spacersBefore
        /\ EditedBefore.spacersBefore[trip.pos] = 1) =>
          trip.pos + 1 \notin DOMAIN EditedNow.spacersBefore

\* the last blank before a card was removed while another card keeps its
\* blanks: the entry is gone, the other one is left
C30_Witness ==
    /\ trip.stage = "spacerRemoved"
    /\ trip.pos \in DOMAIN EditedBefore.spacersBefore
    /\ EditedBefore.spacersBefore[trip.pos] = 1
    /\ trip.pos \notin DOMAIN EditedNow.spacersBefore
    /\ DOMAIN EditedNow.spacersBefore # {}

====
